---- MODULE Spec2Model ----
(***************************************************************************)
(* Model of the Camunda process-test harness:                              *)
(*   - CamundaProcessTestExtension : the Jest lifecycle hooks               *)
(*   - CamundaProcessTestContext   : resource / instance tracking, cleanup  *)
(*   - JobWorkerMock               : the single-shot job-worker mock        *)
(* The engine (REST client, job activation) is the environment: the result *)
(* of every call it answers is a nondeterministic choice.                  *)
(***************************************************************************)
EXTENDS Naturals, Integers, Sequences, FiniteSets, TLC

(* ------------------------------ bounds --------------------------------- *)
MaxTracked == 2          \* length of the tracked-resource list
MaxMocks == 1            \* JobWorkerMock objects created in a run
MaxCalls == 2            \* terminal configuration calls made in a run, and
                         \* mocks created and calls made before a further one
MaxJobs == 2             \* jobs delivered to one engine worker
MaxDeleteAttempts == 2   \* deleteResource attempts of one PollingOperation
MaxCleanupRuns == 2      \* consecutive cleanupTestData calls after one test

(* --------------------------- program constants ------------------------- *)
MaxJobsToActivate == 1

InstanceKeys == {"i1", "i2"}
ResourceKeys == {"r1", "r2"}
Falsy == ""

\* Shapes of the deployment response (deployResourcesFromFiles): the lists
\* of definition keys per kind.  The first is the empty response, the last
\* carries a definition without a key.
DeployResponses ==
  { [processes |-> <<>>, decisions |-> <<>>, decisionRequirements |-> <<>>, forms |-> <<>>],
    [processes |-> <<"r1">>, decisions |-> <<>>, decisionRequirements |-> <<>>, forms |-> <<>>],
    [processes |-> <<"r2">>, decisions |-> <<>>, decisionRequirements |-> <<>>, forms |-> <<>>],
    [processes |-> <<>>, decisions |-> <<"r2">>, decisionRequirements |-> <<"r1">>, forms |-> <<>>],
    [processes |-> <<>>, decisions |-> <<>>, decisionRequirements |-> <<>>, forms |-> <<"r2">>],
    [processes |-> <<Falsy>>, decisions |-> <<>>, decisionRequirements |-> <<>>, forms |-> <<>>] }

\* the backoff ceiling of waitUntil, in ms
BackoffCap == 5000

\* assertion timeouts and polling intervals (ms) an assert object is built with
Timeouts == {3000, 8000}
Intervals == {1000, 6000}
Descriptions == {"Decision to be evaluated"}

\* how long one evaluation of the predicate takes (ms)
Durations == {0, 1000, 7000}

\* what the lookup of one predicate evaluation meets
Lookups == {"match", "mismatch", "empty", "404", "error"}

MaxDecisions == 3     \* decision instances in the engine
MaxDate == 2          \* distinct evaluation dates
MaxElements == 2      \* element ids passed to hasCompletedElements
MaxEvaluations == 2   \* predicate evaluations of one waitUntil call
MaxSearches == 2      \* searchUserTasks calls of one getUserTask call
MaxTasks == 3         \* user tasks in the engine
MaxStops == 2         \* stop() calls on one runtime
MaxAdvances == 3      \* increaseTime calls on one context
MaxValueLen == 4      \* characters of a configuration value in the file

\* hasInput: const maxAttempts = 3
MaxAttempts == 3

DecisionIds == {"d1", "d2"}

\* selectors of a decision assertion
DecisionSelectors ==
  { [type |-> "decisionId", value |-> d] : d \in DecisionIds }
  \cup { [type |-> "key", value |-> <<k, 1>>] : k \in {"key", "id"} }

\* gateway addresses: none configured, the one of the configuration, the
\* default of REMOTE mode, the one of the started container
NoAddress == ""
ConfiguredGatewayAddress == "remote.example:26500"
DefaultGatewayAddress == "localhost:26500"
ManagedGatewayAddress == "localhost:<mapped port>"

\* runtime configurations; debug: process.env.DEBUG includes 'camunda'
RuntimeConfigs ==
  [runtimeMode : {"MANAGED", "REMOTE"},
   gatewayAddress : {NoAddress, ConfiguredGatewayAddress},
   connectorsEnabled : BOOLEAN,
   debug : BOOLEAN]
NoConfig == [runtimeMode |-> "none", gatewayAddress |-> NoAddress,
             connectorsEnabled |-> FALSE, debug |-> FALSE]

\* a topology response, by what its text contains: "partitionId":1 without a
\* space, "partitionId": 1 with one, role leader and health healthy in either
\* spelling
TopologyResponses ==
  [compactPartition : BOOLEAN, spacedPartition : BOOLEAN,
   leader : BOOLEAN, healthy : BOOLEAN]

\* the last answers of the health and the topology endpoint before the
\* startup timeout
Probes == [health : {200, 503}, topologyStatus : {200, 503},
           topology : TopologyResponses]
NoProbe == [health |-> 0, topologyStatus |-> 0,
            topology |-> [compactPartition |-> FALSE, spacedPartition |-> FALSE,
                          leader |-> FALSE, healthy |-> FALSE]]

\* keys and values of decision results: two numbers and the object {x: 1}
ResultKeys == {"a", "b"}
Absent == [kind |-> "absent", v |-> 0]
Undefined == [kind |-> "undefined", v |-> 0]
ResultValues ==
  { [kind |-> "number", v |-> n] : n \in {1, 2} } \cup { [kind |-> "object", v |-> 1] }

\* parsed results that are objects, by key; a result that is null; a result
\* that stayed a string
ObjectResults == [ResultKeys -> ResultValues \cup {Absent}]
NullResult == [kind |-> "null", v |-> 0]
StringResult == [kind |-> "string", v |-> 0]
ActualResults == ObjectResults \cup {NullResult, StringResult}

\* the expectedPartialResult argument: the keys it names and their values,
\* undefined included
ExpectedResults == [ResultKeys -> ResultValues \cup {Undefined, Absent}]

ElementIds == {"e1", "e2"}
Assignees == {"a1", "a2"}

\* selectors of a user-task assertion; a custom selector is the predicate
\* "the task is at element value"
UserTaskSelectors ==
  { [type |-> "key", value |-> k] : k \in 1..MaxTasks }
  \cup { [type |-> "elementId", value |-> e] : e \in ElementIds }
  \cup { [type |-> "assignee", value |-> a] : a \in Assignees }
  \cup { [type |-> "custom", value |-> e] : e \in ElementIds }

NoSelector == [type |-> "none", value |-> ""]
NoMethod == [cls |-> "none", name |-> "none", selector |-> NoSelector, elementIds |-> 0]

\* the state-assertion methods explored, with their selector and the number of
\* element ids they are given
Methods ==
  { [cls |-> "ProcessInstanceAssert", name |-> "isCompleted",
     selector |-> [type |-> "key", value |-> "i1"], elementIds |-> 0] }
  \cup { [cls |-> "ProcessInstanceAssert", name |-> "hasCompletedElements",
          selector |-> [type |-> "key", value |-> "i1"], elementIds |-> n] :
          n \in 0..MaxElements }
  \cup { [cls |-> "UserTaskAssert", name |-> "exists",
          selector |-> [type |-> t, value |-> "t1"], elementIds |-> 0] :
          t \in {"key", "elementId"} }
  \cup { [cls |-> "DecisionInstanceAssert", name |-> "wasEvaluated",
          selector |-> sel, elementIds |-> 0] : sel \in DecisionSelectors }
  \cup { [cls |-> "DecisionInstanceAssert", name |-> "hasInput",
          selector |-> sel, elementIds |-> 0] :
          sel \in { x \in DecisionSelectors : x.type = "decisionId" } }

HandlerKinds == {"complete", "fail", "bpmnError", "custom", "nothing"}

VARIABLES
  phase,                    \* position of the Jest lifecycle
  jobWorkers,               \* context.jobWorkers: mock ids
  trackedResourceKeys,      \* context.trackedResourceKeys (Set)
  trackedResources,         \* context.trackedResources (array)
  trackedProcessInstances,  \* context.trackedProcessInstances (Set, insertion order)
  mocks,                    \* every JobWorkerMock object, by id
  workers,                  \* every engine job worker created, by id
  cleanup,                  \* position of cleanupTestData
  audit,                    \* history of the running cleanup: what was tracked, what was attempted
  poll,                     \* the running BaseAssert.waitUntil call
  decisions,                \* the decision instances the engine's search returns
  assertion,                \* the running state-assertion method
  userTasks,                \* the user tasks the engine's search returns
  taskCall,                 \* the running UserTaskAssert call
  resultCheck,              \* the last evaluation of the hasResultContaining predicate
  inputLookup,              \* the running evaluation of the hasInput predicate
  runtime,                  \* the CamundaProcessTestRuntime object and its containers
  clockCall,                \* the last CamundaClock operation
  completedTasks,           \* keys of the user tasks the engine has completed
  taskCheck,                \* the running evaluation of UserTaskAssert.isCompleted's predicate
  time,                     \* context.currentTime and the running increaseTime call
  property,                 \* the last configuration property resolved
  setup                     \* extension.beforeAll: configuration resolution and startup

vars == <<phase, jobWorkers, trackedResourceKeys, trackedResources,
          trackedProcessInstances, mocks, workers, cleanup, audit, poll,
          decisions, assertion, userTasks, taskCall, inputLookup, resultCheck,
          runtime,
          clockCall, completedTasks, taskCheck, time, property, setup>>

ctxVars == <<trackedResourceKeys, trackedResources, trackedProcessInstances>>
mockVars == <<jobWorkers, mocks, workers>>
assertVars == <<poll, decisions, assertion>>
taskVars == <<userTasks, taskCall>>
runtimeVars == <<runtime, clockCall>>
lateVars == <<completedTasks, taskCheck, time, property, setup>>
extVars == <<taskVars, inputLookup, resultCheck, runtimeVars, lateVars>>
baseVars == <<phase, mockVars, ctxVars, cleanup, audit>>

(* ------------------------------ helpers -------------------------------- *)
Range(s) == {s[i] : i \in 1..Len(s)}

\* Set.add on an insertion-ordered Set
SetAdd(s, x) == IF x \in Range(s) THEN s ELSE Append(s, x)

Min(a, b) == IF a < b THEN a ELSE b
Max(a, b) == IF a > b THEN a ELSE b

KeysOf(rs) == {rs[i].key : i \in 1..Len(rs)}

IdleCleanup == [pc |-> "idle", run |-> 0, stage |-> 0, i |-> 0, attempt |-> 0,
                cancelErrors |-> 0, cleanupErrors |-> 0]

\* lastCall: how the last createProcessInstance / deployResources call ended
NoCall == [op |-> "none", outcome |-> "none"]

EmptyAudit == [startInstances |-> {}, startResources |-> {},
               cancelAttempted |-> {}, deleteAttempted |-> {},
               lastCall |-> NoCall]

\* no waitUntil call made yet; times are in ms since the call started
IdlePoll == [pc |-> "idle", timeout |-> 0, interval |-> 0, description |-> "",
             elapsed |-> 0, currentInterval |-> 0, consecutiveErrors |-> 0,
             remainingInterval |-> 0, evaluations |-> 0, throws |-> 0, notFound |-> 0,
             lastLookup |-> "none", lastOutcome |-> "none", error |-> <<>>]

\* no decision instance
NoInstance == <<"none">>

\* hasResultContaining not evaluated yet
NoResultCheck == [called |-> FALSE, actual |-> NullResult,
                  expected |-> [key \in ResultKeys |-> Absent], satisfied |-> FALSE]

\* no user task: getUserTask() returned null
NoTask == 0

\* new Error('Cannot complete user task: task not found') and its assignTo twin
TaskNotFound(op) ==
  <<"Cannot ", IF op = "complete" THEN "complete" ELSE "assign",
    " user task: task not found">>

\* the error complete() / assignTo() throw for a rejected command
CommandError(op, answer) ==
  IF answer \in {"400", "403", "404"}
  THEN <<"Cannot ", IF op = "complete" THEN "complete" ELSE "assign",
         " user task: ", answer>>
  ELSE <<answer>>

\* no UserTaskAssert call made yet
IdleTaskCall == [pc |-> "idle", op |-> "none", selector |-> NoSelector,
                 searches |-> 0, target |-> NoTask, commands |-> <<>>,
                 error |-> <<>>]

\* no evaluation of the isCompleted predicate made yet; completedAtCall notes
\* the tasks that were completed when the evaluation began
IdleTaskCheck == [pc |-> "idle", selector |-> NoSelector, searches |-> 0,
                  key |-> NoTask, completedAtCall |-> {}, result |-> "none"]
\* before the context is constructed; times are in ms, currentTime since the
\* construction of the context, engineOffset the offset added to the engine clock
NoContextTime == [pc |-> "none", mode |-> "none", currentTime |-> 0, engineOffset |-> 0,
                  before |-> 0, milliseconds |-> 0, advances |-> 0, error |-> <<>>]

\* the durations given to increaseTime: a number of ms, or an object of days,
\* hours, minutes and seconds (a missing field is 0)
TimeDurations ==
  { [kind |-> "number", value |-> v] : v \in {0, 1500} }
  \cup { [kind |-> "object", days |-> d, hours |-> 0, minutes |-> m, seconds |-> sec] :
           d \in {0, 1}, m \in {0, 2}, sec \in {0, 30} }
\* a value that may be missing: null / undefined, or a string, which is a
\* sequence of characters
Null == [set |-> FALSE, text |-> <<>>]
String(text) == [set |-> TRUE, text |-> text]

\* the characters of the values explored
Chars == {"$", "{", "}", "x"}

\* properties[jsonKey] of the configuration file: missing, or any string
FileValues ==
  {Null} \cup {String(t) : t \in UNION {[1..n -> Chars] : n \in 0..MaxValueLen}}

\* process.env[envKey]: unset, empty, or a value
EnvValues == {Null, String(<<>>), String(<<"e", "n", "v">>)}

\* CAMUNDA_RUNTIME_CONFIGURATION: envKey, defaultValue and useVersionResolver
\* of every key
RuntimeConfiguration ==
  [camundaVersion |->
     [envKey |-> "CAMUNDA_DOCKER_IMAGE_VERSION", defaultValue |-> String(<<"SNAPSHOT">>),
      useVersionResolver |-> TRUE],
   camundaDockerImageName |->
     [envKey |-> "CAMUNDA_DOCKER_IMAGE_NAME", defaultValue |-> String(<<"camunda/camunda">>),
      useVersionResolver |-> FALSE],
   camundaDockerImageVersion |->
     [envKey |-> "CAMUNDA_DOCKER_IMAGE_VERSION", defaultValue |-> String(<<"SNAPSHOT">>),
      useVersionResolver |-> TRUE],
   connectorsDockerImageName |->
     [envKey |-> "CONNECTORS_DOCKER_IMAGE_NAME",
      defaultValue |-> String(<<"camunda/connectors-bundle">>),
      useVersionResolver |-> FALSE],
   connectorsDockerImageVersion |->
     [envKey |-> "CONNECTORS_DOCKER_IMAGE_VERSION", defaultValue |-> String(<<"SNAPSHOT">>),
      useVersionResolver |-> TRUE],
   runtimeMode |->
     [envKey |-> "CAMUNDA_RUNTIME_MODE", defaultValue |-> String(<<"MANAGED">>),
      useVersionResolver |-> FALSE]]

\* no property resolved yet
NoProperty == [key |-> "none", env |-> Null, file |-> Null, resolved |-> Null]
\* what configuration resolution finds: whether CAMUNDA_TEST_CONFIG_FILE names
\* a file (by a relative or an absolute path) and what is at that path, whether
\* a package.json marks a project root, and what camunda-test-config.json at
\* the project root is
ConfigurationInputs ==
  [override : {"none", "relative", "absolute"},
   overrideFile : {"missing", "unparsable", "valid"},
   packageJson : BOOLEAN,
   rootFile : {"missing", "unparsable", "valid"}]
NoInputs == [override |-> "none", overrideFile |-> "missing",
             packageJson |-> FALSE, rootFile |-> "missing"]

\* the outcomes of configuration resolution
Resolved(config) == [threw |-> FALSE, config |-> config, error |-> "none"]
ResolutionError(error) == [threw |-> TRUE, config |-> "none", error |-> error]

\* extension.beforeAll() not called yet; found are the instances active in a
\* remote engine before the run, cancelled those the startup cancelled
NoSetup == [pc |-> "idle", inputs |-> NoInputs, resolution |-> Resolved("none"),
            flushProcesses |-> FALSE, found |-> {}, cancelled |-> {},
            afterAll |-> FALSE]

\* no evaluation of the hasInput predicate running
IdleLookup == [pc |-> "idle", selector |-> NoSelector, key |-> NoInstance,
               attempts |-> 0, gets |-> 0, pauses |-> 0,
               lastAnswer |-> "none", result |-> "none"]

\* new CamundaProcessTestRuntime(config), before start()
NewRuntime == [pc |-> "new", config |-> NoConfig,
               container |-> FALSE, connectorsContainer |-> FALSE,
               gatewayAddress |-> NoAddress, probe |-> NoProbe,
               startLog |-> <<>>, startError |-> "none", captureAttempted |-> FALSE,
               stops |-> 0, stopStep |-> 0, stopLog |-> <<>>]

\* no clock operation called yet
NoClockCall == [op |-> "none", mode |-> "none", outcome |-> "none",
                original |-> <<>>, error |-> <<>>]

\* the errors of a clock request: fetch rejected, or the Error thrown for a
\* response that is not ok
FetchFailed == <<"TypeError: fetch failed">>
ResponseNotOk(op) ==
  <<IF op = "addTime" THEN "Failed to advance clock: " ELSE "Failed to reset clock: ",
    "status">>

\* new Error(`Clock manipulation / Clock reset failed in REMOTE mode. ...
\* Original error: ${error}`)
RemoteClockError(op, original) ==
  <<IF op = "addTime" THEN "Clock manipulation failed in REMOTE mode"
                      ELSE "Clock reset failed in REMOTE mode",
    "Original error: ", original>>

\* no state-assertion method called yet
IdleAssertion == [pc |-> "idle", method |-> NoMethod, pending |-> 0,
                  waitCalls |-> 0, evaluations |-> 0, reads |-> 0,
                  minReads |-> 0, maxReads |-> 0, checked |-> NoInstance]

Init ==
  /\ phase = "init"
  /\ jobWorkers = <<>>
  /\ trackedResourceKeys = {}
  /\ trackedResources = <<>>
  /\ trackedProcessInstances = <<>>
  /\ mocks = <<>>
  /\ workers = <<>>
  /\ cleanup = IdleCleanup
  /\ audit = EmptyAudit
  /\ poll = IdlePoll
  /\ decisions = <<>>
  /\ assertion = IdleAssertion
  /\ userTasks = <<>>
  /\ taskCall = IdleTaskCall
  /\ inputLookup = IdleLookup
  /\ resultCheck = NoResultCheck
  /\ runtime = NewRuntime
  /\ clockCall = NoClockCall
  /\ completedTasks = {}
  /\ taskCheck = IdleTaskCheck
  /\ time = NoContextTime
  /\ property = NoProperty
  /\ setup = NoSetup


(* ---------------------------- JobWorkerMock ---------------------------- *)
\* new JobWorkerMock(client, jobType): worker undefined, no handlers, not started,
\* finish undefined.  promises are the promises handed out by the terminal
\* configuration methods, in order; finish is the index of the one the
\* finish callback resolves (0: undefined).
NewMock == [worker |-> 0, handlers |-> <<>>, isStarted |-> FALSE,
            finish |-> 0, promises |-> <<>>]

\* the engine worker returned by createJobWorker; handlerIndex is the local
\* counter of the closure created by start(); callsBefore notes how many
\* promises the mock had handed out when the worker's last job arrived
NewWorker(m) == [mock |-> m, active |-> TRUE, maxJobsToActivate |-> MaxJobsToActivate,
                 handlerIndex |-> 0, pc |-> "idle", kind |-> "none",
                 cmds |-> <<>>, threw |-> FALSE, received |-> 0, callsBefore |-> 0]

\* JobWorkerMock.start()
Start(st, m) ==
  IF st.mocks[m].isStarted THEN st
  ELSE [mocks |-> [st.mocks EXCEPT ![m].worker = Len(st.workers) + 1,
                                   ![m].isStarted = TRUE],
        workers |-> Append(st.workers, NewWorker(m))]

\* a stop() that forgets the engine worker
MockStopFlagOnly(st, m) ==
  [mocks |-> [st.mocks EXCEPT ![m].isStarted = FALSE], workers |-> st.workers]

\* JobWorkerMock.stop()
MockStop(st, m) ==
  IF st.mocks[m].worker # 0 /\ st.mocks[m].isStarted
  THEN [mocks |-> [st.mocks EXCEPT ![m].isStarted = FALSE],
        workers |-> [st.workers EXCEPT ![st.mocks[m].worker].active = FALSE]]
  ELSE st

RECURSIVE StopAll(_, _)
\* for (const worker of this.jobWorkers) worker.stop()
StopAll(st, ids) ==
  IF ids = <<>> THEN st ELSE StopAll(MockStop(st, Head(ids)), Tail(ids))

\* a job handler that leaves its engine worker running
HandlerKeepsWorker(ws, wid) == ws

\* this.worker?.stop() at the head of the job handler
HandlerStopWorker(ws, wid) ==
  IF wid = 0 THEN ws ELSE [ws EXCEPT ![wid].active = FALSE]

RECURSIVE TotalCalls(_)
\* configuration calls made so far, over all mocks
TotalCalls(ms) == IF ms = <<>> THEN 0 ELSE Len(Head(ms).handlers) + TotalCalls(Tail(ms))

\* a terminal configuration method: push the handler, start() unless it is
\* doNothing, hand out a new promise whose resolver becomes this.finish
Configure(m, kind, starts) ==
  /\ phase = "test"
  /\ m \in Range(jobWorkers)
  /\ TotalCalls(mocks) < MaxCalls
  /\ Len(mocks) + TotalCalls(mocks) <= MaxCalls
  /\ LET pushed == [mocks |-> [mocks EXCEPT ![m].handlers = Append(@, kind)],
                    workers |-> workers]
         started == IF starts THEN Start(pushed, m) ELSE pushed
     IN /\ mocks' = [started.mocks EXCEPT ![m].promises = Append(@, "pending"),
                                          ![m].finish = Len(mocks[m].promises) + 1]
        /\ workers' = started.workers
  /\ UNCHANGED <<phase, jobWorkers, ctxVars, cleanup, audit, assertVars, extVars>>

thenComplete(m) == Configure(m, "complete", TRUE)
thenThrowError(m) == Configure(m, "fail", TRUE)
thenThrowBpmnError(m) == Configure(m, "bpmnError", TRUE)
withHandler(m) == Configure(m, "custom", TRUE)
doNothing(m) == Configure(m, "nothing", FALSE)

\* the test calls mock.stop()
stop(m) ==
  /\ phase = "test"
  /\ m \in Range(jobWorkers)
  /\ LET st == MockStop([mocks |-> mocks, workers |-> workers], m)
     IN mocks' = st.mocks /\ workers' = st.workers
  /\ UNCHANGED <<phase, jobWorkers, ctxVars, cleanup, audit, assertVars, extVars>>

\* jobs the engine worker w is working on
InFlight(w) == IF workers[w].pc = "running" THEN 1 ELSE 0

\* the command a behaviour sends when it is invoked; a custom handler either
\* reports the job itself (complete.success) or reports nothing
SentBy(kind) ==
  CASE kind = "complete" -> {<<"complete">>}
    [] kind = "fail" -> {<<"fail">>}
    [] kind = "bpmnError" -> {<<"error">>}
    [] kind = "nothing" -> {<<>>}
    [] kind = "custom" -> {<<>>, <<"complete">>}

\* the engine activates a job for a registered worker and calls jobHandler:
\* stop the mock's worker, pick the handler, invoke it; noted: the number of
\* promises handed out so far is kept with the worker
JobHandlerCalled(w, noted) ==
  /\ phase # "init"
  /\ w \in 1..Len(workers)
  /\ workers[w].active
  /\ InFlight(w) < workers[w].maxJobsToActivate
  /\ workers[w].received < MaxJobs
  /\ LET m == workers[w].mock
         hs == mocks[m].handlers
         kind == hs[(workers[w].handlerIndex % Len(hs)) + 1]
         stopped == HandlerStopWorker(workers, mocks[m].worker)
     IN \E c \in SentBy(kind) :
          workers' = [stopped EXCEPT ![w].pc = "running", ![w].kind = kind,
                                     ![w].cmds = c, ![w].threw = FALSE,
                                     ![w].received = @ + 1,
                                     ![w].callsBefore = IF noted THEN Len(mocks[m].promises)
                                                       ELSE 0]
  /\ UNCHANGED <<phase, jobWorkers, mocks, ctxVars, cleanup, audit, assertVars, extVars>>

JobReceived(w) == JobHandlerCalled(w, FALSE)
JobReceivedNoted(w) == JobHandlerCalled(w, TRUE)

\* this.finish?.()
Finish(ms, m) ==
  IF ms[m].finish = 0 THEN ms
  ELSE [ms EXCEPT ![m].promises[ms[m].finish] = "resolved"]

\* the awaited behaviour returned: handlerIndex++, finish
HandlerReturns(w) ==
  /\ w \in 1..Len(workers)
  /\ workers[w].pc = "running"
  /\ workers' = [workers EXCEPT ![w].pc = "done", ![w].handlerIndex = @ + 1]
  /\ mocks' = Finish(mocks, workers[w].mock)
  /\ UNCHANGED <<phase, jobWorkers, ctxVars, cleanup, audit, assertVars, extVars>>

\* a catch block that only logs
CatchSilent(cmds) == cmds

\* catch: job.fail({ errorMessage: `Handler error: ...` })
CatchCommands(cmds) == Append(cmds, "fail")

\* the awaited behaviour threw (the custom handler threw, or the command of a
\* built-in behaviour was rejected by the engine): catch branch
HandlerThrows(w) ==
  /\ w \in 1..Len(workers)
  /\ workers[w].pc = "running"
  /\ workers[w].kind # "nothing"
  /\ workers' = [workers EXCEPT ![w].pc = "done", ![w].handlerIndex = @ + 1,
                                ![w].threw = TRUE,
                                ![w].cmds = CatchCommands(@)]
  /\ UNCHANGED <<phase, jobWorkers, mocks, ctxVars, cleanup, audit, assertVars, extVars>>

\* context.mockJobWorker(jobType)
mockJobWorker ==
  /\ phase = "test"
  /\ Len(mocks) < MaxMocks
  /\ Len(mocks) + TotalCalls(mocks) <= MaxCalls
  /\ mocks' = Append(mocks, NewMock)
  /\ jobWorkers' = Append(jobWorkers, Len(mocks) + 1)
  /\ UNCHANGED <<phase, workers, ctxVars, cleanup, audit, assertVars, extVars>>

(* ------------------- CamundaProcessTestContext: tracking --------------- *)
\* trackProcessInstance(response)
trackProcessInstance(tpi, key) == IF key # Falsy THEN SetAdd(tpi, key) ELSE tpi

\* tracking the requested instance whatever the engine answered
TrackedRegardless(tpi, ok, key) == trackProcessInstance(tpi, key)

\* const response = await camunda.createProcessInstance(request);
\* this.trackProcessInstance(response): a rejected call throws before tracking
TrackedAfterCreate(tpi, ok, key) ==
  IF ok THEN trackProcessInstance(tpi, key) ELSE tpi

\* context.createProcessInstance / createProcessInstanceWithResult, called in
\* phase p: the engine call either throws (nothing is tracked) or answers
\* with a key
createProcessInstanceIn(p) ==
  /\ phase = p
  /\ \E ok \in BOOLEAN, key \in InstanceKeys \cup {Falsy} :
       /\ trackedProcessInstances' = TrackedAfterCreate(trackedProcessInstances, ok, key)
       /\ audit' = [audit EXCEPT !.lastCall =
                      [op |-> "createProcessInstance",
                       outcome |-> IF ok THEN "returned" ELSE "threw"]]
  /\ UNCHANGED <<phase, mockVars, trackedResourceKeys, trackedResources, cleanup, assertVars, extVars>>

\* one forEach of trackDeployedResources: push every definition that has a key
RECURSIVE TrackKind(_, _, _)
TrackKind(rs, keys, type) ==
  IF keys = <<>> THEN rs
  ELSE TrackKind(IF Head(keys) # Falsy
                 THEN Append(rs, [key |-> Head(keys), type |-> type])
                 ELSE rs,
                 Tail(keys), type)

\* trackDeployedResources(response, resourcePaths): processes, decisions,
\* decision requirements, forms, in that order
trackDeployedResources(rs, resp) ==
  TrackKind(TrackKind(TrackKind(TrackKind(rs,
      resp.processes, "process definition"),
      resp.decisions, "decision definition"),
      resp.decisionRequirements, "decisionRequirements definition"),
      resp.forms, "form")

\* validateDeploymentResponse: throws when nothing was deployed
totalDeployedResources(resp) ==
  Len(resp.processes) + Len(resp.decisions)
    + Len(resp.decisionRequirements) + Len(resp.forms)

\* context.deployResources(resourcePaths, { autoDelete }), called in phase p
deployResourcesIn(p) ==
  /\ phase = p
  /\ \E ok \in BOOLEAN, resp \in DeployResponses, autoDelete \in BOOLEAN :
       LET tracked == trackDeployedResources(trackedResources, resp)
           deployed == ok /\ totalDeployedResources(resp) # 0
       IN /\ IF deployed /\ autoDelete
             THEN /\ Len(tracked) <= MaxTracked
                  /\ trackedResources' = tracked
                  /\ trackedResourceKeys' = KeysOf(tracked)
             ELSE UNCHANGED <<trackedResources, trackedResourceKeys>>
          /\ audit' = [audit EXCEPT !.lastCall =
                         [op |-> "deployResources",
                          outcome |-> IF deployed THEN "returned" ELSE "threw"]]
  /\ UNCHANGED <<phase, mockVars, trackedProcessInstances, cleanup, assertVars, extVars>>

\* the calls of a test body
createProcessInstance == createProcessInstanceIn("test")

deployResources == deployResourcesIn("test")

\* the calls of a hook of the test file that runs between the extension's
\* beforeAll and beforeEach (the context exists from beforeAll on)
createProcessInstanceInHook == createProcessInstanceIn("ready")

deployResourcesInHook == deployResourcesIn("ready")

\* context.resetTestState(): stop the workers, forget them, clear the tracking
ResetTestState ==
  /\ LET st == StopAll([mocks |-> mocks, workers |-> workers], jobWorkers)
     IN mocks' = st.mocks /\ workers' = st.workers
  /\ jobWorkers' = <<>>
  /\ trackedResources' = <<>>
  /\ trackedResourceKeys' = {}
  /\ trackedProcessInstances' = <<>>

\* a test body calls context.resetTestState() itself
resetTestState ==
  /\ phase = "test"
  /\ ResetTestState
  /\ UNCHANGED <<phase, cleanup, audit, assertVars, extVars>>

(* ------------------- CamundaProcessTestContext: cleanup ---------------- *)
\* cleanupTestData deleting the resources first
ResourcesFirst == <<"resources", "instances">>

\* cleanupTestData: await cleanupTrackedProcessInstances(), then
\* await cleanupTrackedResources()
CleanupOrder == <<"instances", "resources">>

\* a cleanup that fails on an empty collection instead of returning early
EnterStageNoEarlyReturn(s, tpi, trs) ==
  IF s > Len(CleanupOrder) THEN [pc |-> "done", stage |-> s, i |-> 0]
  ELSE IF CleanupOrder[s] = "instances"
       THEN IF tpi = <<>> THEN [pc |-> "failed", stage |-> s, i |-> 0]
            ELSE [pc |-> "cancel", stage |-> s, i |-> 1]
       ELSE IF trs = <<>> THEN [pc |-> "failed", stage |-> s, i |-> 0]
            ELSE [pc |-> "delete", stage |-> s, i |-> 1]

\* Run the cleanup from its stage s on, up to its next engine call: a stage
\* with nothing tracked returns at once; "cancel"/"delete": the call for item i
\* of the stage is in flight
RECURSIVE EnterStage(_, _, _)
EnterStage(s, tpi, trs) ==
  IF s > Len(CleanupOrder) THEN [pc |-> "done", stage |-> s, i |-> 0]
  ELSE IF CleanupOrder[s] = "instances"
       THEN IF tpi = <<>> THEN EnterStage(s + 1, tpi, trs)
            ELSE [pc |-> "cancel", stage |-> s, i |-> 1]
       ELSE IF trs = <<>> THEN EnterStage(s + 1, tpi, trs)
            ELSE [pc |-> "delete", stage |-> s, i |-> 1]

\* the position after EnterStage, and the call it issued noted in the audit
Entered(c, pos) ==
  [c EXCEPT !.pc = pos.pc, !.stage = pos.stage, !.i = pos.i, !.attempt = 1]

Noted(a, pos, tpi, trs) ==
  IF pos.pc = "cancel" THEN [a EXCEPT !.cancelAttempted = @ \cup {tpi[pos.i]}]
  ELSE IF pos.pc = "delete" THEN [a EXCEPT !.deleteAttempted = @ \cup {trs[pos.i].key}]
  ELSE a

\* the body of cleanupTestData, up to its first engine call; run counts the
\* consecutive calls
RunCleanup(run) ==
  LET st == StopAll([mocks |-> mocks, workers |-> workers], jobWorkers)
      pos == EnterStage(1, trackedProcessInstances, trackedResources)
  IN /\ mocks' = st.mocks
     /\ workers' = st.workers
     /\ cleanup' = Entered([IdleCleanup EXCEPT !.run = run], pos)
     /\ audit' = Noted([EmptyAudit EXCEPT
                          !.startInstances = Range(trackedProcessInstances),
                          !.startResources = KeysOf(trackedResources)],
                       pos, trackedProcessInstances, trackedResources)

\* context.cleanupTestData(), called by the afterEach hook
cleanupTestData ==
  /\ phase = "test"
  /\ phase' = "afterEach"
  /\ RunCleanup(1)
  /\ UNCHANGED <<jobWorkers, ctxVars, assertVars, extVars>>

\* context.cleanupTestData() called again once the previous call has returned
cleanupTestDataAgain ==
  /\ phase = "afterEach"
  /\ cleanup.pc = "done"
  /\ cleanup.run < MaxCleanupRuns
  /\ RunCleanup(cleanup.run + 1)
  /\ UNCHANGED <<phase, jobWorkers, ctxVars, assertVars, extVars>>

\* a cancel loop whose first failure escapes
CancelErrorEscapes(ok) == ok

\* try { await cancelProcessInstance } catch { cancelErrors.push }: the loop
\* goes on whatever the call's outcome
CancelErrorCaught(ok) == TRUE

\* clearing only after a clean run
ClearIfClean(tpi, errors) == IF errors = 0 THEN <<>> ELSE tpi

\* this.trackedProcessInstances.clear() after the cancel loop
ClearInstances(tpi, errors) == <<>>

\* the cancelProcessInstance call in flight settles
CancelSettles ==
  /\ cleanup.pc = "cancel"
  /\ \E ok \in BOOLEAN :
       LET errors == cleanup.cancelErrors + (IF ok THEN 0 ELSE 1)
           c1 == [cleanup EXCEPT !.cancelErrors = errors]
       IN IF ~CancelErrorCaught(ok)
          THEN /\ cleanup' = [c1 EXCEPT !.pc = "failed"]
               /\ UNCHANGED <<trackedProcessInstances, audit>>
          ELSE IF cleanup.i < Len(trackedProcessInstances)
          THEN LET pos == [pc |-> "cancel", stage |-> cleanup.stage, i |-> cleanup.i + 1]
               IN /\ cleanup' = Entered(c1, pos)
                  /\ audit' = Noted(audit, pos, trackedProcessInstances, trackedResources)
                  /\ UNCHANGED trackedProcessInstances
          ELSE LET cleared == ClearInstances(trackedProcessInstances, errors)
                   pos == EnterStage(cleanup.stage + 1, cleared, trackedResources)
               IN /\ trackedProcessInstances' = cleared
                  /\ cleanup' = Entered(c1, pos)
                  /\ audit' = Noted(audit, pos, cleared, trackedResources)
  /\ UNCHANGED <<phase, mockVars, trackedResourceKeys, trackedResources, assertVars, extVars>>

\* the resource loop moves past item i: the next item's PollingOperation
\* starts, or the lists are cleared and the stage is over
ResourceLoopAdvances(c1) ==
  IF cleanup.i < Len(trackedResources)
  THEN LET pos == [pc |-> "delete", stage |-> cleanup.stage, i |-> cleanup.i + 1]
       IN /\ cleanup' = Entered(c1, pos)
          /\ audit' = Noted(audit, pos, trackedProcessInstances, trackedResources)
          /\ UNCHANGED <<trackedResources, trackedResourceKeys>>
  ELSE LET pos == EnterStage(cleanup.stage + 1, trackedProcessInstances, <<>>)
       IN /\ trackedResources' = <<>>
          /\ trackedResourceKeys' = {}
          /\ cleanup' = Entered(c1, pos)
          /\ audit' = Noted(audit, pos, trackedProcessInstances, <<>>)

\* PollingOperation: deleteResource answered, the predicate holds
DeleteSucceeds ==
  /\ cleanup.pc = "delete"
  /\ ResourceLoopAdvances(cleanup)
  /\ UNCHANGED <<phase, mockVars, trackedProcessInstances, assertVars, extVars>>

\* PollingOperation: deleteResource failed (.catch(() => false)), the
\* timeout has not passed: call again after the interval
DeleteRetries ==
  /\ cleanup.pc = "delete"
  /\ cleanup.attempt < MaxDeleteAttempts
  /\ cleanup' = [cleanup EXCEPT !.attempt = @ + 1]
  /\ UNCHANGED <<phase, mockVars, ctxVars, audit, assertVars, extVars>>

\* PollingOperation: deleteResource failed and the timeout has passed: it
\* rejects, the loop's catch collects the error
DeleteTimesOut ==
  /\ cleanup.pc = "delete"
  /\ ResourceLoopAdvances([cleanup EXCEPT !.cleanupErrors = @ + 1])
  /\ UNCHANGED <<phase, mockVars, trackedProcessInstances, assertVars, extVars>>

(* ------------------- CamundaProcessTestExtension: hooks ---------------- *)
\* extension.beforeAll(): runtime started, client and context created
beforeAll ==
  /\ phase = "init"
  /\ phase' = "ready"
  /\ UNCHANGED <<mockVars, ctxVars, cleanup, audit, assertVars, extVars>>

\* extension.beforeEach(): context.resetTestState(), then the test body runs
beforeEach ==
  /\ phase = "ready"
  /\ phase' = "test"
  /\ ResetTestState
  /\ UNCHANGED <<cleanup, audit, assertVars, extVars>>

\* an afterEach that does not wait for the cleanup
AfterEachFireAndForget == TRUE

\* await this.context.cleanupTestData(): the hook returns when the cleanup
\* has returned (or thrown)
AfterEachAwaited == cleanup.pc \in {"done", "failed"}

\* extension.afterEach() returns to the test runner
afterEach ==
  /\ phase = "afterEach"
  /\ AfterEachAwaited
  /\ phase' = "ready"
  /\ UNCHANGED <<mockVars, ctxVars, cleanup, audit, assertVars, extVars>>

\* extension.afterAll()
afterAll ==
  /\ phase = "ready"
  /\ phase' = "finished"
  /\ UNCHANGED <<mockVars, ctxVars, cleanup, audit, assertVars, extVars>>

(* ----------------------- BaseAssert.waitUntil -------------------------- *)
\* backoff that keeps doubling
BackoffUncapped(interval, k) == interval * 2^k

\* Math.min(this.interval * Math.pow(2, consecutiveErrors), 5000)
Backoff(interval, k) == Min(interval * 2^k, BackoffCap)

\* `Timeout waiting for ${description} after ${this.timeout}ms`
TimeoutError(description, timeout) ==
  <<"Timeout waiting for ", description, " after ", timeout, "ms">>

\* what one evaluation of an assertion predicate yields, from what its lookup
\* met: getDecisionInstance turns a 404 into null, which the predicate
\* compares to false; any other error leaves the predicate as a throw
ConditionOutcome(lookup) ==
  CASE lookup = "match"    -> "true"
    [] lookup = "mismatch" -> "false"
    [] lookup = "empty"    -> "false"
    [] lookup = "404"      -> "false"
    [] lookup = "error"    -> "throw"

\* the end of the loop body: sleep for what is left of the interval
Pace(p, operationDuration) ==
  LET remainingInterval == Max(0, p.currentInterval - operationDuration)
  IN IF remainingInterval > 0
     THEN [p EXCEPT !.pc = "sleeping", !.remainingInterval = remainingInterval]
     ELSE [p EXCEPT !.pc = "check"]

\* an error of the predicate that ends the wait
Rethrown(p, operationDuration) ==
  [p EXCEPT !.pc = "failed", !.error = <<"condition error">>]

\* catch (error): count it, back off, keep polling
Caught(p, operationDuration) ==
  Pace([p EXCEPT !.consecutiveErrors = @ + 1,
                 !.throws = @ + 1,
                 !.currentInterval = Backoff(p.interval, p.consecutiveErrors + 1)],
       operationDuration)

\* the predicate returned false: consecutiveErrors = 0, currentInterval = interval
NotYet(p, operationDuration) ==
  Pace([p EXCEPT !.consecutiveErrors = 0, !.currentInterval = p.interval],
       operationDuration)

\* a wait that gives up quietly
SoftTimeout(p) == [p EXCEPT !.pc = "returned"]

\* the loop guard failed: throw new Error(`Timeout waiting for ...`)
LoopExit(p) ==
  [p EXCEPT !.pc = "failed", !.error = TimeoutError(p.description, p.timeout)]

\* waitUntil(condition, description) on an assert object built with
\* (timeout, interval), up to the first evaluation of the loop guard
waitUntil ==
  /\ poll.pc \in {"idle", "returned", "failed"}
  /\ \E timeout \in Timeouts, interval \in Intervals, description \in Descriptions :
       poll' = [IdlePoll EXCEPT !.pc = "check",
                                !.timeout = timeout,
                                !.interval = interval,
                                !.description = description,
                                !.currentInterval = interval]
  /\ UNCHANGED <<phase, mockVars, ctxVars, cleanup, audit, decisions, assertion, extVars>>

\* while (Date.now() - startTime < this.timeout)
LoopGuard ==
  /\ poll.pc = "check"
  /\ poll' = IF poll.elapsed < poll.timeout
             THEN [poll EXCEPT !.pc = "evaluating"]
             ELSE LoopExit(poll)
  /\ UNCHANGED <<phase, mockVars, ctxVars, cleanup, audit, decisions, assertion, extVars>>

\* await condition() settles after operationDuration ms
ConditionSettles ==
  /\ poll.pc = "evaluating"
  /\ \E lookup \in Lookups, operationDuration \in Durations :
       LET outcome == ConditionOutcome(lookup)
           p == [poll EXCEPT !.elapsed = @ + operationDuration,
                             !.lastLookup = lookup,
                             !.lastOutcome = outcome,
                             !.evaluations = @ + 1,
                             !.notFound = IF lookup = "404" THEN @ + 1 ELSE @]
       IN poll' = CASE outcome = "true"  -> [p EXCEPT !.pc = "returned"]
                    [] outcome = "false" -> NotYet(p, operationDuration)
                    [] outcome = "throw" -> Caught(p, operationDuration)
  /\ UNCHANGED <<phase, mockVars, ctxVars, cleanup, audit, decisions, assertion, extVars>>

\* await this.sleep(remainingInterval) is over
SleepEnds ==
  /\ poll.pc = "sleeping"
  /\ poll' = [poll EXCEPT !.pc = "check",
                          !.elapsed = @ + poll.remainingInterval,
                          !.remainingInterval = 0]
  /\ UNCHANGED <<phase, mockVars, ctxVars, cleanup, audit, decisions, assertion, extVars>>

(* ------------------------- assertion classes --------------------------- *)
\* items[0] of a page sorted by evaluationDate ascending
OldestFirst(items) ==
  {x \in items : \A y \in items : x.evaluationDate <= y.evaluationDate}

\* items[0] of searchDecisionInstances({sort: [{field: 'evaluationDate',
\* order: 'DESC'}]}): an instance of the latest date; the engine orders equal
\* dates as it likes
NewestFirst(items) ==
  {x \in items : \A y \in items : y.evaluationDate <= x.evaluationDate}

\* the stored decision instances whose field has the value of the filter
Matching(store, field, value) ==
  {store[i] : i \in {j \in 1..Len(store) : store[j][field] = value}}

\* one evaluation of a predicate built on getDecisionInstance(): the engine
\* reads it made and the instance it compared
GetDecisionInstance(store, selector) ==
  IF selector.type = "decisionId"
  THEN LET items == Matching(store, "decisionDefinitionId", selector.value)
       IN IF items = {} THEN {[reads |-> 1, checked |-> NoInstance]}
          ELSE {[reads |-> 1, checked |-> x.decisionInstanceId] : x \in NewestFirst(items)}
  ELSE LET byKey == Matching(store, "decisionInstanceKey", selector.value)
           byId == Matching(store, "decisionInstanceId", selector.value)
       IN IF byKey # {}
          THEN {[reads |-> 2, checked |-> x.decisionInstanceId] : x \in NewestFirst(byKey)}
          ELSE IF byId # {}
               THEN {[reads |-> 3, checked |-> x.decisionInstanceId] : x \in byId}
               ELSE {[reads |-> 2, checked |-> NoInstance]}

\* one evaluation of the predicate of hasInput: getDecisionInstanceKey(), then
\* up to maxAttempts calls of client.getDecisionInstance while it answers 404
HasInputEvaluation(store, selector) ==
  LET items == Matching(store, "decisionDefinitionId", selector.value)
  IN IF items = {} THEN {[reads |-> 1, checked |-> NoInstance]}
     ELSE UNION {
            {[reads |-> 1 + attempts, checked |-> x.decisionInstanceId],
             [reads |-> 1 + MaxAttempts, checked |-> NoInstance]} :
            x \in NewestFirst(items), attempts \in 1..MaxAttempts }

\* one evaluation of a predicate built on UserTaskAssert.getUserTask(): a
\* direct read by key, or its own loop of searchUserTasks calls, followed by a
\* getUserTask read once a search has found the task
GetUserTask(selector) ==
  IF selector.type = "key" THEN {[reads |-> 1, checked |-> NoInstance]}
  ELSE {[reads |-> searches + found, checked |-> NoInstance] :
          searches \in 1..MaxSearches, found \in {0, 1}}

\* what one evaluation of the predicate of a method can do
Evaluations(store, method) ==
  CASE method.cls = "ProcessInstanceAssert" -> {[reads |-> 1, checked |-> NoInstance]}
    [] method.cls = "UserTaskAssert" -> GetUserTask(method.selector)
    [] method.cls = "DecisionInstanceAssert" /\ method.name = "hasInput" ->
         HasInputEvaluation(store, method.selector)
    [] OTHER -> GetDecisionInstance(store, method.selector)

\* the waitUntil calls a method makes: hasCompletedElements and
\* hasActiveElements make one per element id, every other method one
WaitCallsOf(method) ==
  IF method.name \in {"hasCompletedElements", "hasActiveElements"}
  THEN method.elementIds
  ELSE 1

\* the engine evaluates a decision
DecisionEvaluated ==
  /\ Len(decisions) < MaxDecisions
  /\ \E d \in DecisionIds, date \in 1..MaxDate :
       LET n == Len(decisions) + 1
       IN decisions' = Append(decisions,
            [decisionInstanceKey |-> <<"key", n>>,
             decisionInstanceId |-> <<"id", n>>,
             decisionDefinitionId |-> d,
             evaluationDate |-> date])
  /\ UNCHANGED <<phase, mockVars, ctxVars, cleanup, audit, poll, assertion, extVars>>

\* a state-assertion method is called on a fresh assert object
CallMethod ==
  /\ assertion.pc \in {"idle", "done", "failed"}
  /\ \E method \in Methods :
       assertion' = [IdleAssertion EXCEPT !.pc = "loop",
                                          !.method = method,
                                          !.pending = WaitCallsOf(method)]
  /\ UNCHANGED <<phase, mockVars, ctxVars, cleanup, audit, poll, decisions, extVars>>

\* the method goes on to its next await this.waitUntil(...), or returns this
NextWaitCall ==
  /\ assertion.pc = "loop"
  /\ assertion' = IF assertion.pending = 0
                  THEN [assertion EXCEPT !.pc = "done"]
                  ELSE [assertion EXCEPT !.pc = "polling",
                                         !.pending = @ - 1,
                                         !.waitCalls = @ + 1,
                                         !.evaluations = 0]
  /\ UNCHANGED <<phase, mockVars, ctxVars, cleanup, audit, poll, decisions, extVars>>

\* waitUntil evaluates the predicate once: true ends this waitUntil call
Evaluate ==
  /\ assertion.pc = "polling"
  /\ assertion.evaluations < MaxEvaluations
  /\ \E e \in Evaluations(decisions, assertion.method), satisfied \in BOOLEAN :
       assertion' = [assertion EXCEPT
                       !.pc = IF satisfied THEN "loop" ELSE "polling",
                       !.evaluations = @ + 1,
                       !.reads = e.reads,
                       !.minReads = IF @ = 0 THEN e.reads ELSE Min(@, e.reads),
                       !.maxReads = Max(@, e.reads),
                       !.checked = e.checked]
  /\ UNCHANGED <<phase, mockVars, ctxVars, cleanup, audit, poll, decisions, extVars>>

\* waitUntil gives up: the method rejects with the timeout error
WaitTimesOut ==
  /\ assertion.pc = "polling"
  /\ assertion' = [assertion EXCEPT !.pc = "failed"]
  /\ UNCHANGED <<phase, mockVars, ctxVars, cleanup, audit, poll, decisions, extVars>>

(* ---------------------------- UserTaskAssert --------------------------- *)
\* buildSearchQuery(): the filter of the search, none (null) for a key selector
\* and no filter at all for a custom selector; no sort is requested
SearchResult(store, selector) ==
  CASE selector.type = "elementId" -> Matching(store, "elementId", selector.value)
    [] selector.type = "assignee"  -> Matching(store, "assignee", selector.value)
    [] selector.type = "custom"    -> Range(store)
    [] OTHER -> {}

\* the tasks of a search result a selector accepts: every one, or those the
\* custom predicate (here: the task is at a given element) returns true for
Accepted(items, selector) ==
  IF selector.type = "custom"
  THEN {t \in items : t.elementId = selector.value}
  ELSE items

\* the latest-created accepted task
LatestCreated(items) ==
  {t \in items : \A u \in items : u.creationDate <= t.creationDate}

\* response.items[0], or the first item in response order the predicate
\* accepts: the search asks for no order, so it is whichever accepted task the
\* engine lists first
FirstListed(items) == items

\* a method that sends its command whatever getUserTask() returned
SendsRegardless(c, target) ==
  [c EXCEPT !.pc = "commanding",
            !.target = target,
            !.commands = Append(@, [command |-> c.op, userTaskKey |-> target])]

\* what complete() / assignTo() do with the task getUserTask() returned:
\* if (!task) throw new Error('Cannot <op> user task: task not found'),
\* otherwise the command is sent; exists() compares task !== null
AfterGetUserTask(c, target) ==
  CASE c.op = "exists" -> [c EXCEPT !.pc = "done", !.target = target]
    [] target = NoTask ->
         [c EXCEPT !.pc = "threw", !.target = target,
                   !.error = TaskNotFound(c.op)]
    [] OTHER ->
         [c EXCEPT !.pc = "commanding",
                   !.target = target,
                   !.commands = Append(@, [command |-> c.op, userTaskKey |-> target])]

\* the engine creates a user task; creation dates follow creation order
UserTaskCreated ==
  /\ Len(userTasks) < MaxTasks
  /\ \E e \in ElementIds, a \in Assignees :
       LET n == Len(userTasks) + 1
       IN userTasks' = Append(userTasks,
            [userTaskKey |-> n, elementId |-> e, assignee |-> a,
             creationDate |-> n])
  /\ UNCHANGED <<baseVars, assertVars, taskCall, inputLookup, resultCheck, runtimeVars, lateVars>>

\* exists() (one evaluation of its predicate), complete() or assignTo() is
\* called on a user-task assert object
CallUserTask ==
  /\ taskCall.pc \in {"idle", "done", "threw"}
  /\ \E op \in {"exists", "complete", "assignTo"}, selector \in UserTaskSelectors :
       taskCall' = [IdleTaskCall EXCEPT !.pc = "getUserTask",
                                        !.op = op,
                                        !.selector = selector]
  /\ UNCHANGED <<baseVars, assertVars, userTasks, inputLookup, resultCheck, runtimeVars, lateVars>>

\* getUserTask() with a key selector: client.getUserTask(key); its 404 is
\* caught and answered with null
GetByKey ==
  /\ taskCall.pc = "getUserTask"
  /\ taskCall.selector.type = "key"
  /\ LET found == Matching(userTasks, "userTaskKey", taskCall.selector.value)
     IN taskCall' = AfterGetUserTask(taskCall,
                      IF found = {} THEN NoTask ELSE taskCall.selector.value)
  /\ UNCHANGED <<baseVars, assertVars, userTasks, inputLookup, resultCheck, runtimeVars, lateVars>>

\* getUserTask() with another selector: one searchUserTasks call of its
\* polling loop; a hit is read by key and returned, a miss sleeps and searches
\* again until the loop's own timeout
SearchUserTasks ==
  /\ taskCall.pc = "getUserTask"
  /\ taskCall.selector.type # "key"
  /\ LET accepted == Accepted(SearchResult(userTasks, taskCall.selector),
                              taskCall.selector)
         c == [taskCall EXCEPT !.searches = @ + 1]
     IN IF accepted # {}
        THEN \E t \in FirstListed(accepted) :
               taskCall' = AfterGetUserTask(c, t.userTaskKey)
        ELSE IF c.searches >= MaxSearches
             THEN taskCall' = AfterGetUserTask(c, NoTask)
             ELSE taskCall' = c
  /\ UNCHANGED <<baseVars, assertVars, userTasks, inputLookup, resultCheck, runtimeVars, lateVars>>

\* client.completeUserTask / assignUserTask settles; 400, 403 and 404 are
\* rethrown with a message of the method, any other error as it is
CommandSettles ==
  /\ taskCall.pc = "commanding"
  /\ \E answer \in {"ok", "400", "403", "404", "other"} :
       taskCall' = IF answer = "ok"
                   THEN [taskCall EXCEPT !.pc = "done"]
                   ELSE [taskCall EXCEPT !.pc = "threw",
                                         !.error = CommandError(taskCall.op, answer)]
  /\ UNCHANGED <<baseVars, assertVars, userTasks, inputLookup, resultCheck, runtimeVars, lateVars>>

(* --------------------- UserTaskAssert.isCompleted ---------------------- *)
\* the state of a user task in the engine
StateOf(done, key) == IF key \in done THEN "COMPLETED" ELSE "CREATED"

\* searchUserTasks({...searchQuery, filter: {...searchQuery.filter,
\* state: 'CREATED'}}): the tasks of the selector's filter that are active
SearchCreated(store, done, selector) ==
  {t \in SearchResult(store, selector) : StateOf(done, t.userTaskKey) = "CREATED"}

\* return task?.state === 'COMPLETED'
IsCompletedPredicate(done, key) ==
  key # NoTask /\ StateOf(done, key) = "COMPLETED"

\* the engine completes a user task
UserTaskCompleted ==
  /\ \E k \in (1..Len(userTasks)) \ completedTasks :
       completedTasks' = completedTasks \cup {k}
  /\ UNCHANGED <<baseVars, assertVars, taskVars, inputLookup, resultCheck,
                 runtimeVars, taskCheck, time, property, setup>>

\* isCompleted(): one evaluation of its predicate begins with getUserTask()
isCompleted ==
  /\ taskCheck.pc \in {"idle", "evaluated"}
  /\ \E selector \in UserTaskSelectors :
       taskCheck' = [IdleTaskCheck EXCEPT !.pc = "getUserTask",
                                          !.selector = selector,
                                          !.completedAtCall = completedTasks]
  /\ UNCHANGED <<baseVars, assertVars, taskVars, inputLookup, resultCheck,
                 runtimeVars, completedTasks, time, property, setup>>

\* getUserTask() with a key selector: the task is read whatever its state; a
\* 404 is answered with null
CheckByKey ==
  /\ taskCheck.pc = "getUserTask"
  /\ taskCheck.selector.type = "key"
  /\ LET found == Matching(userTasks, "userTaskKey", taskCheck.selector.value)
         key == IF found = {} THEN NoTask ELSE taskCheck.selector.value
     IN taskCheck' = [taskCheck EXCEPT !.pc = "evaluated", !.key = key,
                                       !.result = IsCompletedPredicate(completedTasks, key)]
  /\ UNCHANGED <<baseVars, assertVars, taskVars, inputLookup, resultCheck,
                 runtimeVars, completedTasks, time, property, setup>>

\* getUserTask() with another selector: one searchUserTasks call of its
\* polling loop, over the active tasks only; a hit is then read by key, a miss
\* searches again until the loop's own timeout and then answers null
CheckSearch ==
  /\ taskCheck.pc = "getUserTask"
  /\ taskCheck.selector.type # "key"
  /\ LET accepted == Accepted(SearchCreated(userTasks, completedTasks, taskCheck.selector),
                              taskCheck.selector)
         c == [taskCheck EXCEPT !.searches = @ + 1]
     IN IF accepted # {}
        THEN \E t \in FirstListed(accepted) :
               taskCheck' = [c EXCEPT !.pc = "reading", !.key = t.userTaskKey]
        ELSE IF c.searches >= MaxSearches
             THEN taskCheck' = [c EXCEPT !.pc = "evaluated",
                                         !.result = IsCompletedPredicate(completedTasks, NoTask)]
             ELSE taskCheck' = c
  /\ UNCHANGED <<baseVars, assertVars, taskVars, inputLookup, resultCheck,
                 runtimeVars, completedTasks, time, property, setup>>

\* client.getUserTask(userTaskKey) of the hit answers with the task as it is
\* now, and the predicate compares its state
CheckRead ==
  /\ taskCheck.pc = "reading"
  /\ taskCheck' = [taskCheck EXCEPT !.pc = "evaluated",
                                    !.result = IsCompletedPredicate(completedTasks, taskCheck.key)]
  /\ UNCHANGED <<baseVars, assertVars, taskVars, inputLookup, resultCheck,
                 runtimeVars, completedTasks, time, property, setup>>

(* ------------------ DecisionInstanceAssert.hasInput: lookup ------------ *)
\* getDecisionInstanceKey(): the decisionInstanceId the selector resolves to,
\* NoInstance for null
GetDecisionInstanceKey(store, selector) ==
  IF selector.type = "decisionId"
  THEN LET items == Matching(store, "decisionDefinitionId", selector.value)
       IN IF items = {} THEN {NoInstance}
          ELSE {x.decisionInstanceId : x \in NewestFirst(items)}
  ELSE LET byKey == Matching(store, "decisionInstanceKey", selector.value)
           byId == Matching(store, "decisionInstanceId", selector.value)
       IN IF byKey # {} THEN {x.decisionInstanceId : x \in NewestFirst(byKey)}
          ELSE IF byId # {} THEN {x.decisionInstanceId : x \in byId}
          ELSE {NoInstance}

\* a retry loop that forgets to count
CountNothing(attempts) == attempts

\* attempts++
CountAttempt(attempts) == attempts + 1

\* one evaluation of the predicate of hasInput begins: getDecisionInstanceKey(),
\* return false if it is null, otherwise enter the retry loop
ResolveKey ==
  /\ inputLookup.pc \in {"idle", "ended"}
  /\ \E selector \in DecisionSelectors :
       \E key \in GetDecisionInstanceKey(decisions, selector) :
         inputLookup' =
           IF key = NoInstance
           THEN [IdleLookup EXCEPT !.pc = "ended", !.selector = selector,
                                   !.result = "false: no instance"]
           ELSE [IdleLookup EXCEPT !.pc = "getting", !.selector = selector,
                                   !.key = key]
  /\ UNCHANGED <<baseVars, assertVars, taskVars, resultCheck, runtimeVars, lateVars>>

\* await this.client.getDecisionInstance(decisionKey) settles: details end the
\* loop; a 404 with attempts left pauses and retries; the last 404 is thrown
\* to the outer catch, which returns false; any other error is rethrown
GetSettles ==
  /\ inputLookup.pc = "getting"
  /\ \E answer \in {"details", "404", "error"} :
       LET l == [inputLookup EXCEPT !.gets = @ + 1, !.lastAnswer = answer]
           attempts == CountAttempt(inputLookup.attempts)
       IN inputLookup' =
            CASE answer = "details" ->
                   [l EXCEPT !.pc = "ended", !.result = "compared"]
              [] answer = "404" /\ attempts < MaxAttempts ->
                   [l EXCEPT !.pc = "pausing", !.attempts = attempts]
              [] answer = "404" ->
                   [l EXCEPT !.pc = "ended", !.attempts = attempts,
                             !.result = "false: not found"]
              [] OTHER ->
                   [l EXCEPT !.pc = "ended", !.attempts = attempts,
                             !.result = "throw"]
  /\ UNCHANGED <<baseVars, assertVars, taskVars, resultCheck, runtimeVars, lateVars>>

\* await new Promise((resolve) => setTimeout(resolve, 1000)); continue
PauseEnds ==
  /\ inputLookup.pc = "pausing"
  /\ inputLookup' = [inputLookup EXCEPT !.pc = "getting", !.pauses = @ + 1]
  /\ UNCHANGED <<baseVars, assertVars, taskVars, resultCheck, runtimeVars, lateVars>>

(* ------------- DecisionInstanceAssert.hasResultContaining -------------- *)
\* result[key]: undefined for a key the object does not have
Property(object, key) == IF object[key] = Absent THEN Undefined ELSE object[key]

\* a === b on a value of the parsed result and a value the caller wrote:
\* primitives by value; two objects are never the same reference, the result
\* being built by JSON.parse
StrictEquals(a, b) == a.kind # "object" /\ a = b

\* the predicate of hasResultContaining on the transformed result:
\* false unless the result is a non-null object, then
\* Object.entries(expected).every(([key, value]) => result[key] === value)
ResultContains(actual, expected) ==
  /\ actual \in ObjectResults
  /\ \A key \in ResultKeys :
       expected[key] # Absent => StrictEquals(Property(actual, key), expected[key])

\* every key named in expected is present in the result with an equal value
NamedKeysPresentAndEqual(actual, expected) ==
  \A key \in ResultKeys :
    expected[key] # Absent =>
      /\ actual \in ObjectResults
      /\ actual[key] # Absent
      /\ actual[key] = expected[key]

\* one evaluation of the predicate of hasResultContaining(expected) against a
\* decision whose parsed result is actual
hasResultContaining ==
  /\ \E actual \in ActualResults, expected \in ExpectedResults :
       resultCheck' = [called |-> TRUE, actual |-> actual, expected |-> expected,
                       satisfied |-> ResultContains(actual, expected)]
  /\ UNCHANGED <<baseVars, assertVars, taskVars, inputLookup, runtimeVars, lateVars>>

(* ---------------------- CamundaProcessTestRuntime ---------------------- *)
\* CamundaContainer.isPartitionReady(response): the first alternative stands
\* alone, the conjunction belongs to the second:
\* compact || (spaced && (leader) && (healthy))
isPartitionReady(response) ==
  \/ response.compactPartition
  \/ /\ response.spacedPartition
     /\ response.leader
     /\ response.healthy

\* forStatusCodeMatching((status) => status >= 200 && status < 300)
StatusMatches(status) == status >= 200 /\ status < 300

\* Wait.forAll([newDefaultBrokerReadyCheck(), newDefaultTopologyReadyCheck()])
\* on the last answers of the two endpoints
WaitStrategyPasses(probe) ==
  /\ StatusMatches(probe.health)
  /\ StatusMatches(probe.topologyStatus)
  /\ isPartitionReady(probe.topology)

\* startRemoteMode(): this.gatewayAddress =
\*   this.config.remote?.gatewayAddress || 'localhost:26500'
startRemoteMode(rt) ==
  [rt EXCEPT !.pc = "started",
             !.gatewayAddress = IF rt.config.gatewayAddress # NoAddress
                                THEN rt.config.gatewayAddress
                                ELSE DefaultGatewayAddress]

\* the engine container first
EngineFirst == <<"camunda", "connectors">>

\* stop(): if (this.connectorsContainer) await ...stop();
\*         if (this.container) await ...stop()
StopSequence == <<"connectors", "camunda">>

\* the container field of the runtime a stop target stands for
FieldSet(rt, target) ==
  IF target = "connectors" THEN rt.connectorsContainer ELSE rt.container

\* stop() from position i of its sequence on, up to its next container call
EnterStop(rt, i) ==
  LET rest == {j \in i..Len(StopSequence) : FieldSet(rt, StopSequence[j])}
  IN IF rest = {}
     THEN [rt EXCEPT !.pc = "stopped", !.stopStep = 0]
     ELSE LET j == CHOOSE k \in rest : \A l \in rest : k <= l
          IN [rt EXCEPT !.pc = "stopping",
                        !.stopStep = j,
                        !.stopLog = Append(@, <<StopSequence[j], "stop">>)]

\* new CamundaProcessTestRuntime(config)
newRuntime ==
  /\ runtime.pc = "new"
  /\ \E config \in RuntimeConfigs :
       runtime' = [runtime EXCEPT !.pc = "constructed", !.config = config]
  /\ UNCHANGED <<baseVars, assertVars, taskVars, inputLookup, resultCheck, clockCall, lateVars>>

\* start(): REMOTE mode only sets the gateway address; MANAGED mode begins
\* startCamunda() with container.start()
start ==
  /\ runtime.pc = "constructed"
  /\ runtime' = IF runtime.config.runtimeMode = "REMOTE"
                THEN startRemoteMode(runtime)
                ELSE [runtime EXCEPT !.pc = "startingCamunda",
                                     !.startLog = Append(@, "camunda")]
  /\ UNCHANGED <<baseVars, assertVars, taskVars, inputLookup, resultCheck, clockCall, lateVars>>

\* container.start() of the engine settles: it resolves when the image ran
\* and the wait strategy passed, and rejects otherwise; the rest of the try
\* block (mapped ports, initial log capture) may throw as well; the catch
\* captures logs only from a container it holds and only in debug mode
CamundaStartSettles ==
  /\ runtime.pc = "startingCamunda"
  /\ \E ran \in BOOLEAN, probe \in Probes, rest \in {"ok", "throws"} :
       LET resolved == ran /\ WaitStrategyPasses(probe)
           held == [runtime EXCEPT !.container = TRUE,
                                   !.probe = probe,
                                   !.gatewayAddress = ManagedGatewayAddress]
       IN runtime' =
            CASE ~resolved ->
                   [runtime EXCEPT !.pc = "startFailed",
                                   !.startError = "camunda container start",
                                   !.captureAttempted = FALSE]
              [] resolved /\ rest = "throws" ->
                   [held EXCEPT !.pc = "startFailed",
                                !.startError = "camunda after start",
                                !.captureAttempted = runtime.config.debug]
              [] resolved /\ rest = "ok" /\ runtime.config.connectorsEnabled ->
                   [held EXCEPT !.pc = "startingConnectors",
                                !.startLog = Append(@, "connectors")]
              [] OTHER -> [held EXCEPT !.pc = "started"]
  /\ UNCHANGED <<baseVars, assertVars, taskVars, inputLookup, resultCheck, clockCall, lateVars>>

\* startConnectors(): new GenericContainer(image)...start() settles
ConnectorsStartSettles ==
  /\ runtime.pc = "startingConnectors"
  /\ \E ok \in BOOLEAN :
       runtime' = IF ok
                  THEN [runtime EXCEPT !.pc = "started", !.connectorsContainer = TRUE]
                  ELSE [runtime EXCEPT !.pc = "startFailed",
                                       !.startError = "connectors container start"]
  /\ UNCHANGED <<baseVars, assertVars, taskVars, inputLookup, resultCheck, clockCall, lateVars>>

\* stop() is called: after start() settled either way, or again after a stop()
\* that returned
stop_runtime ==
  /\ runtime.pc \in {"constructed", "started", "startFailed", "stopped"}
  /\ runtime.stops < MaxStops
  /\ runtime' = EnterStop([runtime EXCEPT !.stops = @ + 1, !.stopLog = <<>>], 1)
  /\ UNCHANGED <<baseVars, assertVars, taskVars, inputLookup, resultCheck, clockCall, lateVars>>

\* the awaited stop() of a container settles; an error leaves stop()
ContainerStopSettles ==
  /\ runtime.pc = "stopping"
  /\ \E ok \in BOOLEAN :
       LET target == StopSequence[runtime.stopStep]
           noted == [runtime EXCEPT !.stopLog =
                       Append(@, <<target, IF ok THEN "stopped" ELSE "failed">>)]
       IN runtime' = IF ok
                     THEN EnterStop(noted, runtime.stopStep + 1)
                     ELSE [noted EXCEPT !.pc = "stopFailed"]
  /\ UNCHANGED <<baseVars, assertVars, taskVars, inputLookup, resultCheck, clockCall, lateVars>>

(* ------------------------------ CamundaClock --------------------------- *)
\* the error of the failed request itself
RawError(mode, op, original) == original

\* catch (error): in REMOTE mode a new Error naming the mode and quoting the
\* original error, otherwise the error itself
ClockError(mode, op, original) ==
  IF mode = "REMOTE" THEN RemoteClockError(op, original) ELSE original

\* addTime(offsetMillis) / resetClock(): one fetch, which is answered ok, is
\* answered with a status that is not ok, or rejects
ClockOperation(op) ==
  /\ runtime.pc = "started"
  /\ \E answer \in {"ok", "not ok", "rejects"} :
       LET mode == runtime.config.runtimeMode
           original == IF answer = "rejects" THEN FetchFailed ELSE ResponseNotOk(op)
       IN clockCall' =
            IF answer = "ok"
            THEN [op |-> op, mode |-> mode, outcome |-> "returned",
                  original |-> <<>>, error |-> <<>>]
            ELSE [op |-> op, mode |-> mode, outcome |-> "threw",
                  original |-> original, error |-> ClockError(mode, op, original)]
  /\ UNCHANGED <<baseVars, assertVars, taskVars, inputLookup, resultCheck, runtime, lateVars>>

addTime == ClockOperation("addTime")

resetClock == ClockOperation("resetClock")

(* -------------------- ContainerRuntimePropertiesUtil ------------------- *)
\* PLACEHOLDER_PATTERN = /\$\{.*\}/ tested on a string: "${" and, somewhere
\* after it, "}"
PlaceholderPatternTest(text) ==
  \E i \in 1..Len(text) : \E j \in 1..Len(text) :
    /\ i + 1 < j
    /\ text[i] = "$"
    /\ text[i + 1] = "{"
    /\ text[j] = "}"

\* isPlaceholder(propertyValue)
isPlaceholder(propertyValue) ==
  ~propertyValue.set \/ PlaceholderPatternTest(propertyValue.text)

\* getLatestReleasedVersion(properties, propertyName, defaultValue): the
\* environment is not read
getLatestReleasedVersion(propertyValue, defaultValue) ==
  IF ~propertyValue.set \/ isPlaceholder(propertyValue)
  THEN defaultValue
  ELSE propertyValue

\* getPropertyOrDefault(versionProperties, propertyName, defaultValue), env
\* being process.env[propertyName.envKey]:
\* env ?? (propertyValue || defaultValue)
getPropertyOrDefault(env, propertyValue, defaultValue) ==
  IF ~env.set /\ (~propertyValue.set \/ isPlaceholder(propertyValue))
  THEN defaultValue
  ELSE IF env.set THEN env
       ELSE IF propertyValue.set /\ propertyValue.text # <<>>
            THEN propertyValue
            ELSE defaultValue

\* resolveProperty(propertyKey, properties)
resolveProperty(propertyKey, env, propertyValue) ==
  LET config == RuntimeConfiguration[propertyKey]
  IN IF config.useVersionResolver
     THEN getLatestReleasedVersion(propertyValue, config.defaultValue)
     ELSE getPropertyOrDefault(env, propertyValue, config.defaultValue)

\* the constructor resolves a key of the configuration map, under some
\* environment and some content of the configuration file
ResolveConfiguredKey ==
  /\ property.key = "none"
  /\ \E key \in DOMAIN RuntimeConfiguration, env \in EnvValues, file \in FileValues :
       property' = [key |-> key, env |-> env, file |-> file,
                    resolved |-> resolveProperty(key, env, file)]
  /\ UNCHANGED <<baseVars, assertVars, taskVars, inputLookup, resultCheck,
                 runtimeVars, completedTasks, taskCheck, time, setup>>

(* --------------------- CamundaConfigurationDiscovery ------------------- *)
\* getProjectRoot() throws when no package.json is found
ProjectRootNotFound == ResolutionError("Project root not found")

\* a loader of the named file that falls back to the empty configuration
loadTolerantly(inputs) ==
  IF inputs.overrideFile = "valid" THEN Resolved("override file") ELSE Resolved("empty")

\* loadSpecificConfigFile(filePath): a relative path is resolved from the
\* project root; a missing file throws (after listing the available files,
\* from the project root), a file that cannot be parsed throws
loadSpecificConfigFile(inputs) ==
  IF inputs.override = "relative" /\ ~inputs.packageJson THEN ProjectRootNotFound
  ELSE IF inputs.overrideFile = "missing"
       THEN IF inputs.packageJson
            THEN ResolutionError("Camunda test configuration file not found")
            ELSE ProjectRootNotFound
       ELSE IF inputs.overrideFile = "unparsable"
            THEN ResolutionError("Failed to parse Camunda test configuration file")
            ELSE Resolved("override file")

\* resolveConfiguration(): the override when it is set, otherwise the file at
\* the project root; there, a file that cannot be parsed is logged and the
\* empty configuration returned, as for a missing file
resolveConfiguration(inputs) ==
  IF inputs.override # "none" THEN loadSpecificConfigFile(inputs)
  ELSE IF ~inputs.packageJson THEN ProjectRootNotFound
       ELSE IF inputs.rootFile = "valid" THEN Resolved("root file")
            ELSE Resolved("empty")

(* ------------- CamundaProcessTestExtension: beforeAll, afterAll -------- *)
\* a flush that does not look at the mode
FlushedWhateverMode(mode, flushProcesses, found) ==
  IF flushProcesses THEN found ELSE {}

\* the instances the startup cancels: with the flush flag in REMOTE mode every
\* active instance of the remote engine, otherwise none
FlushedInstances(mode, flushProcesses, found) ==
  IF mode = "REMOTE" /\ flushProcesses THEN found ELSE {}

\* beforeAll(): ContainerRuntimePropertiesUtil.readProperties() resolves the
\* configuration; an error of the resolution leaves beforeAll
readProperties ==
  /\ setup.pc = "idle"
  /\ \E inputs \in ConfigurationInputs, flag \in BOOLEAN, found \in SUBSET InstanceKeys :
       LET resolution == resolveConfiguration(inputs)
       IN setup' = [setup EXCEPT !.pc = IF resolution.threw THEN "threw" ELSE "resolved",
                                 !.inputs = inputs,
                                 !.resolution = resolution,
                                 !.flushProcesses = flag,
                                 !.found = found]
  /\ UNCHANGED <<baseVars, assertVars, taskVars, inputLookup, resultCheck,
                 runtimeVars, completedTasks, taskCheck, time, property>>

\* beforeAll(): this.runtime = new CamundaProcessTestRuntime(runtimeConfig)
beforeAllNewRuntime ==
  /\ setup.pc = "resolved"
  /\ newRuntime

\* beforeAll(): await this.runtime.start() threw
beforeAllStartThrows ==
  /\ setup.pc = "resolved"
  /\ runtime.pc = "startFailed"
  /\ setup' = [setup EXCEPT !.pc = "startThrew"]
  /\ UNCHANGED <<baseVars, assertVars, taskVars, inputLookup, resultCheck,
                 runtimeVars, completedTasks, taskCheck, time, property>>

\* beforeAll() completes after start() returned: the flush of the startup is
\* done, client and context are created
beforeAllCompletes ==
  /\ setup.pc = "resolved"
  /\ runtime.pc = "started"
  /\ setup' = [setup EXCEPT !.pc = "ready",
                            !.cancelled = FlushedInstances(runtime.config.runtimeMode,
                                                           setup.flushProcesses, setup.found)]
  /\ UNCHANGED <<baseVars, assertVars, taskVars, inputLookup, resultCheck,
                 runtimeVars, completedTasks, taskCheck, time, property>>

\* afterAll(): if (this.runtime) await this.runtime.stop()
afterAllStop ==
  /\ setup.pc \in {"threw", "startThrew", "ready"}
  /\ ~setup.afterAll
  /\ setup' = [setup EXCEPT !.afterAll = TRUE]
  /\ runtime' = IF runtime.pc = "new" THEN runtime
                ELSE EnterStop([runtime EXCEPT !.stops = @ + 1, !.stopLog = <<>>], 1)
  /\ UNCHANGED <<baseVars, assertVars, taskVars, inputLookup, resultCheck,
                 clockCall, completedTasks, taskCheck, time, property>>

(* --------------- CamundaProcessTestContext: current time --------------- *)
\* increaseTime: the duration in ms
Milliseconds(duration) ==
  IF duration.kind = "number" THEN duration.value
  ELSE duration.days * 24 * 60 * 60 * 1000
         + duration.hours * 60 * 60 * 1000
         + duration.minutes * 60 * 1000
         + duration.seconds * 1000

\* new CamundaProcessTestContext(runtime, client): currentTime = new Date()
newContext ==
  /\ time.pc = "none"
  /\ \E mode \in {"MANAGED", "REMOTE"} :
       time' = [NoContextTime EXCEPT !.pc = "idle", !.mode = mode]
  /\ UNCHANGED <<baseVars, assertVars, taskVars, inputLookup, resultCheck,
                 runtimeVars, completedTasks, taskCheck, property, setup>>

\* increaseTime(duration), up to its await: currentTime is advanced, then
\* clock.addTime(milliseconds) is called
increaseTime ==
  /\ time.pc \in {"idle", "returned", "threw"}
  /\ time.advances < MaxAdvances
  /\ \E duration \in TimeDurations :
       time' = [time EXCEPT !.pc = "addTime",
                            !.before = time.currentTime,
                            !.milliseconds = Milliseconds(duration),
                            !.currentTime = @ + Milliseconds(duration),
                            !.advances = @ + 1,
                            !.error = <<>>]
  /\ UNCHANGED <<baseVars, assertVars, taskVars, inputLookup, resultCheck,
                 runtimeVars, completedTasks, taskCheck, property, setup>>

\* the awaited clock.addTime settles: the engine clock is advanced and
\* increaseTime returns, or addTime throws and increaseTime throws its error
AddTimeSettles ==
  /\ time.pc = "addTime"
  /\ \E answer \in {"ok", "not ok", "rejects"} :
       LET original == IF answer = "rejects" THEN FetchFailed ELSE ResponseNotOk("addTime")
       IN time' = IF answer = "ok"
                  THEN [time EXCEPT !.pc = "returned",
                                    !.engineOffset = @ + time.milliseconds]
                  ELSE [time EXCEPT !.pc = "threw",
                                    !.error = ClockError(time.mode, "addTime", original)]
  /\ UNCHANGED <<baseVars, assertVars, taskVars, inputLookup, resultCheck,
                 runtimeVars, completedTasks, taskCheck, property, setup>>

\* resetTime(): currentTime = new Date(); the engine clock is not touched
resetTime ==
  /\ time.pc \in {"returned", "threw"}
  /\ time' = [time EXCEPT !.pc = "idle", !.currentTime = 0]
  /\ UNCHANGED <<baseVars, assertVars, taskVars, inputLookup, resultCheck,
                 runtimeVars, completedTasks, taskCheck, property, setup>>

(* ----------------------------- specifications -------------------------- *)
Hooks == beforeAll \/ beforeEach \/ cleanupTestData \/ afterEach \/ afterAll

NextCleanup ==
  \/ beforeAll
  \/ beforeEach
  \/ cleanupTestData
  \/ cleanupTestDataAgain
  \/ afterEach
  \/ afterAll
  \/ createProcessInstance
  \/ deployResources
  \/ CancelSettles
  \/ DeleteSucceeds
  \/ DeleteRetries
  \/ DeleteTimesOut

NextTracking ==
  \/ NextCleanup
  \/ createProcessInstanceInHook
  \/ deployResourcesInHook
  \/ resetTestState

NextMock ==
  \/ beforeAll
  \/ beforeEach
  \/ cleanupTestData
  \/ afterEach
  \/ afterAll
  \/ mockJobWorker
  \/ \E m \in 1..Len(mocks) : thenComplete(m)
  \/ \E m \in 1..Len(mocks) : thenThrowError(m)
  \/ \E m \in 1..Len(mocks) : thenThrowBpmnError(m)
  \/ \E m \in 1..Len(mocks) : withHandler(m)
  \/ \E m \in 1..Len(mocks) : doNothing(m)
  \/ \E m \in 1..Len(mocks) : stop(m)
  \/ \E w \in 1..Len(workers) : JobReceived(w)
  \/ \E w \in 1..Len(workers) : HandlerReturns(w)
  \/ \E w \in 1..Len(workers) : HandlerThrows(w)

NextPromises ==
  \/ beforeAll
  \/ beforeEach
  \/ cleanupTestData
  \/ afterEach
  \/ afterAll
  \/ mockJobWorker
  \/ \E m \in 1..Len(mocks) : thenComplete(m)
  \/ \E m \in 1..Len(mocks) : thenThrowError(m)
  \/ \E m \in 1..Len(mocks) : thenThrowBpmnError(m)
  \/ \E m \in 1..Len(mocks) : withHandler(m)
  \/ \E m \in 1..Len(mocks) : doNothing(m)
  \/ \E m \in 1..Len(mocks) : stop(m)
  \/ \E w \in 1..Len(workers) : JobReceivedNoted(w)
  \/ \E w \in 1..Len(workers) : HandlerReturns(w)
  \/ \E w \in 1..Len(workers) : HandlerThrows(w)

NextWait ==
  \/ waitUntil
  \/ LoopGuard
  \/ ConditionSettles
  \/ SleepEnds

NextAssert ==
  \/ DecisionEvaluated
  \/ CallMethod
  \/ NextWaitCall
  \/ Evaluate
  \/ WaitTimesOut

NextUserTask ==
  \/ UserTaskCreated
  \/ CallUserTask
  \/ GetByKey
  \/ SearchUserTasks
  \/ CommandSettles

NextIsCompleted ==
  \/ UserTaskCreated
  \/ UserTaskCompleted
  \/ isCompleted
  \/ CheckByKey
  \/ CheckSearch
  \/ CheckRead

NextTime ==
  \/ newContext
  \/ increaseTime
  \/ AddTimeSettles
  \/ resetTime

NextProperties ==
  \/ ResolveConfiguredKey

NextSetup ==
  \/ readProperties
  \/ beforeAllNewRuntime
  \/ start
  \/ CamundaStartSettles
  \/ ConnectorsStartSettles
  \/ beforeAllStartThrows
  \/ beforeAllCompletes
  \/ afterAllStop
  \/ ContainerStopSettles

NextHasInput ==
  \/ DecisionEvaluated
  \/ ResolveKey
  \/ GetSettles
  \/ PauseEnds

NextContaining ==
  \/ hasResultContaining

NextRuntime ==
  \/ newRuntime
  \/ start
  \/ CamundaStartSettles
  \/ ConnectorsStartSettles
  \/ stop_runtime
  \/ ContainerStopSettles
  \/ addTime
  \/ resetClock

\* the tracker and its cleanup under the lifecycle hooks
SpecCleanup == Init /\ [][NextCleanup]_vars

\* the job-worker mocks under the lifecycle hooks
SpecMock == Init /\ [][NextMock]_vars

\* the polling primitive of the assertion classes
SpecWait == Init /\ [][NextWait]_vars

\* the state-assertion methods against the engine's query interface
SpecAssert == Init /\ [][NextAssert]_vars

\* the user-task assertions and commands against the engine
SpecUserTask == Init /\ [][NextUserTask]_vars

\* the lookup of the hasInput predicate; every engine call settles and every
\* timer fires
SpecHasInput ==
  /\ Init
  /\ [][NextHasInput]_vars
  /\ WF_vars(GetSettles)
  /\ WF_vars(PauseEnds)

\* the predicate of hasResultContaining over results and expectations
SpecContaining == Init /\ [][NextContaining]_vars

\* the isCompleted assertion of a user task over the engine's tasks
SpecIsCompleted == Init /\ [][NextIsCompleted]_vars

\* the context's current time and the engine clock
SpecTime == Init /\ [][NextTime]_vars

\* the resolution of the configuration properties
SpecProperties == Init /\ [][NextProperties]_vars

\* the mock workers, each job noting the promises handed out before it
SpecPromises == Init /\ [][NextPromises]_vars

\* the extension's beforeAll and afterAll over the runtime
SpecSetup == Init /\ [][NextSetup]_vars

\* the tracker under every context call and hook order
SpecTracking == Init /\ [][NextTracking]_vars

\* the runtime manager, its containers and the clock
SpecRuntime == Init /\ [][NextRuntime]_vars

(* ------------------------------- properties --------------------------- *)
WorkersOf(m) == {w \in 1..Len(workers) : workers[w].mock = m}

\* times mock m has been registered with the engine
Registrations(m) == Cardinality(WorkersOf(m))

RECURSIVE SumReceived(_)
SumReceived(ws) ==
  IF ws = {} THEN 0
  ELSE LET w == CHOOSE x \in ws : TRUE
       IN workers[w].received + SumReceived(ws \ {w})

\* jobs handed to mock m over its lifetime
JobsOf(m) == SumReceived(WorkersOf(m))

CleanupReturned == cleanup.pc \in {"done", "failed"}

\* C1: once the cleanup has attempted the deletion of a tracked resource, it
\* has attempted the cancellation of every process instance that was tracked
\* when it started.
C1_CancelBeforeDelete ==
  audit.deleteAttempted # {} => audit.startInstances \subseteq audit.cancelAttempted

C1_Witness ==
  /\ audit.startInstances # {}
  /\ audit.startResources # {}
  /\ audit.deleteAttempted # {}

\* C2 (as stated): a mock instance is handed at most one job over its
\* lifetime.
C2_AtMostOneJobPerMock == \A m \in 1..Len(mocks) : JobsOf(m) <= 1

\* C2 (amended): every engine registration of a mock receives at most one job
\* and is de-registered once it has received it, so a mock handles at most as
\* many jobs as it has been registered.
C2_AtMostOneJobPerRegistration ==
  /\ \A w \in 1..Len(workers) :
       /\ workers[w].received <= 1
       /\ workers[w].received = 1 => ~workers[w].active
  /\ \A m \in 1..Len(mocks) : JobsOf(m) <= Registrations(m)

C2_Witness ==
  \E m \in 1..Len(mocks) : Registrations(m) = 2 /\ JobsOf(m) = 2

\* C3: while the configured behaviour runs for a job, the engine worker that
\* received the job is already de-registered.
C3_StoppedBeforeBehaviour ==
  \A w \in 1..Len(workers) : workers[w].pc = "running" => ~workers[w].active

C3_Witness ==
  \E w \in 1..Len(workers) : workers[w].pc = "running" /\ workers[w].kind = "custom"

\* C4 (as stated): for a mock configured by one terminal call, once its job
\* has been handled the promise that call returned is resolved, whatever the
\* outcome of the handling.
C4_ResolvedOnceHandled ==
  \A m \in 1..Len(mocks) :
    (Len(mocks[m].promises) = 1 /\ \E w \in WorkersOf(m) : workers[w].pc = "done")
      => mocks[m].promises[1] = "resolved"

\* C5: when the behaviour threw, the job has been reported to the engine as
\* failed, and no promise returned by a configuration call is rejected.
C5_ThrownIsReportedFailed ==
  /\ \A w \in 1..Len(workers) :
       (workers[w].pc = "done" /\ workers[w].threw)
         => /\ workers[w].cmds # <<>>
            /\ workers[w].cmds[Len(workers[w].cmds)] = "fail"
  /\ \A m \in 1..Len(mocks) : \A i \in 1..Len(mocks[m].promises) :
       mocks[m].promises[i] # "rejected"

C5_Witness ==
  \E w \in 1..Len(workers) :
    /\ workers[w].pc = "done" /\ workers[w].threw /\ workers[w].kind = "complete"
    /\ mocks[workers[w].mock].promises # <<>>

\* C6 (as stated): a mock is not registered before its first terminal
\* configuration call, is registered exactly once from that call on, and
\* every registration activates at most one job at a time.
C6_RegisteredOnFirstCall ==
  /\ \A m \in 1..Len(mocks) :
       Registrations(m) = (IF mocks[m].handlers = <<>> THEN 0 ELSE 1)
  /\ \A w \in 1..Len(workers) : workers[w].maxJobsToActivate = 1

\* C7: when the cleanup has returned, the cancellation of every instance and
\* the deletion of every resource tracked at its start have been attempted.
C7_EveryItemAttempted ==
  CleanupReturned =>
    /\ audit.startInstances \subseteq audit.cancelAttempted
    /\ audit.startResources \subseteq audit.deleteAttempted

C7_Witness ==
  /\ cleanup.pc = "done"
  /\ Cardinality(audit.startInstances) = 2
  /\ cleanup.cancelErrors = 2
  /\ Cardinality(audit.startResources) = 2
  /\ cleanup.cleanupErrors = 2

\* C8: after the cleanup has returned and until the next test starts, the
\* tracked instances, the tracked resources and the tracked resource keys are
\* empty.
C8_TrackingEmptyAfterCleanup ==
  (phase \in {"afterEach", "ready", "finished"} /\ CleanupReturned) =>
    /\ trackedProcessInstances = <<>>
    /\ trackedResources = <<>>
    /\ trackedResourceKeys = {}

C8_Witness ==
  /\ phase = "ready"
  /\ cleanup.pc = "done"
  /\ cleanup.cancelErrors > 0
  /\ cleanup.cleanupErrors > 0

\* C9: between the afterEach hook and the next test (and after the last
\* one), no cancel or delete call of a cleanup is in flight.
C9_CleanupSettledBeforeSetup ==
  phase \in {"ready", "test", "finished"} => cleanup.pc \notin {"cancel", "delete"}

C9_Witness ==
  /\ phase = "test"
  /\ audit.cancelAttempted # {}
  /\ audit.deleteAttempted # {}

C11_EmptyCleanupIsIdle ==
  (cleanup.pc # "idle" /\ audit.startInstances = {} /\ audit.startResources = {}) =>
    /\ cleanup.pc = "done"
    /\ audit.cancelAttempted = {}
    /\ audit.deleteAttempted = {}
    /\ cleanup.cancelErrors = 0
    /\ cleanup.cleanupErrors = 0

C11_Witness ==
  /\ cleanup.run = 2
  /\ cleanup.pc = "done"
  /\ audit.startInstances = {}
  /\ audit.startResources = {}

\* C12: the cleanup never throws: failed cancels and deletes are counted and
\* the call returns normally.
C12_CleanupNeverRejects == cleanup.pc # "failed"

C12_Witness ==
  /\ phase = "ready"
  /\ cleanup.pc = "done"
  /\ cleanup.run = 1
  /\ cleanup.cancelErrors = 1
  /\ cleanup.cleanupErrors = 1

\* C13 (as stated): no resource key appears twice among the tracked
\* resources.
C13_KeysTrackedOnce ==
  \A i, j \in 1..Len(trackedResources) :
    i # j => trackedResources[i].key # trackedResources[j].key

\* C14: a createProcessInstance call that threw leaves the tracked instances
\* as they were.
C14_FailedCreateTracksNothing ==
  [][(phase = "test" /\ phase' = "test"
      /\ audit'.lastCall = [op |-> "createProcessInstance", outcome |-> "threw"])
     => trackedProcessInstances' = trackedProcessInstances]_vars

C14_Witness ==
  /\ audit.lastCall = [op |-> "createProcessInstance", outcome |-> "threw"]
  /\ trackedProcessInstances # <<>>

\* C15: an evaluation of the predicate that throws, or whose lookup is
\* answered with a 404, does not end the wait, and an evaluation that returns
\* true ends it with success whatever came before.
C15_ErrorsAreNotYet ==
  [][poll.pc = "evaluating" =>
       /\ poll'.lastLookup \in {"404", "error"} => poll'.pc \in {"sleeping", "check"}
       /\ poll'.lastLookup = "match" => poll'.pc = "returned"]_vars

C15_Witness ==
  /\ poll.pc = "returned"
  /\ poll.throws >= 1
  /\ poll.notFound >= 1

\* C16 (as stated): the interval is min(base * 2^k, 5000) after k consecutive
\* throwing evaluations, k = 0 after an evaluation that did not throw, and it
\* never exceeds 5000.
C16_IntervalAsStated ==
  poll.pc # "idle" =>
    /\ poll.currentInterval = Min(poll.interval * 2^poll.consecutiveErrors, BackoffCap)
    /\ poll.currentInterval <= BackoffCap

\* C16 (amended): after k >= 1 consecutive throwing evaluations the interval
\* is min(base * 2^k, 5000); with no throwing evaluation since the last one
\* that completed it is the base interval, whatever its size; so it never
\* exceeds the larger of the base interval and 5000.
C16_BackoffFromFirstError ==
  poll.pc # "idle" =>
    /\ poll.consecutiveErrors >= 1 =>
         poll.currentInterval = Min(poll.interval * 2^poll.consecutiveErrors, BackoffCap)
    /\ poll.consecutiveErrors = 0 => poll.currentInterval = poll.interval
    /\ poll.currentInterval <= Max(poll.interval, BackoffCap)

C16_Witness ==
  /\ poll.interval < BackoffCap
  /\ poll.consecutiveErrors >= 3
  /\ poll.currentInterval = BackoffCap

\* C17 (as stated): a wait that fails does so no earlier than its timeout and
\* no later than one polling interval after it.
C17_FailsWithinOneInterval ==
  poll.pc = "failed" =>
    /\ poll.timeout <= poll.elapsed
    /\ poll.elapsed <= poll.timeout + poll.interval

\* C18: a wait ends either returned, and then its last evaluation returned
\* true, or failed with the timeout error that names the description and the
\* timeout.
C18_ReturnedOrTimedOut ==
  /\ poll.pc = "returned" => poll.lastOutcome = "true"
  /\ poll.pc = "failed" =>
       /\ poll.error = TimeoutError(poll.description, poll.timeout)
       /\ poll.elapsed >= poll.timeout
       /\ poll.lastOutcome # "true"

C18_Witness ==
  /\ poll.pc = "failed"
  /\ poll.evaluations >= 2
  /\ poll.throws >= 1

\* C19 (as stated): a state-assertion method that returned made exactly one
\* waitUntil call, and every evaluation of its predicate made exactly one
\* engine read.
C19_OneWaitOneRead ==
  assertion.pc = "done" =>
    /\ assertion.waitCalls = 1
    /\ assertion.minReads = 1
    /\ assertion.maxReads = 1

\* C20: an evaluation of the predicate of a decision assertion selected by
\* decision id never compares an instance of that decision id when the
\* engine holds another one with a later evaluation date, and a predicate
\* built on getDecisionInstance then compares an instance.
C20_LatestEvaluationChecked ==
  [][(/\ assertion.pc = "polling"
      /\ assertion'.evaluations = assertion.evaluations + 1
      /\ assertion.method.cls = "DecisionInstanceAssert"
      /\ assertion.method.selector.type = "decisionId")
     => \A a, b \in Matching(decisions, "decisionDefinitionId",
                            assertion.method.selector.value) :
          a.evaluationDate < b.evaluationDate =>
            /\ assertion'.checked # a.decisionInstanceId
            /\ assertion.method.name = "wasEvaluated" =>
                 assertion'.checked # NoInstance]_vars

C20_Witness ==
  /\ assertion.evaluations > 0
  /\ assertion.method.selector.type = "decisionId"
  /\ \E a, b \in Matching(decisions, "decisionDefinitionId",
                         assertion.method.selector.value) :
       /\ a.evaluationDate < b.evaluationDate
       /\ assertion.checked = b.decisionInstanceId

\* C21 (as stated): a user-task lookup by a non-key selector returns the
\* most recently created of the tasks that match it.
C21_LatestMatchTargeted ==
  [][(/\ taskCall.pc = "getUserTask"
      /\ taskCall.selector.type # "key"
      /\ taskCall'.target # NoTask)
     => taskCall'.target \in
          {t.userTaskKey :
             t \in LatestCreated(Accepted(SearchResult(userTasks, taskCall.selector),
                                          taskCall.selector))}]_vars

\* C23: complete() and assignTo() for which getUserTask() found no task
\* throw the task-not-found error of the method and send no command.
C23_MissingTaskIsRealError ==
  (/\ taskCall.op \in {"complete", "assignTo"}
   /\ taskCall.pc \in {"commanding", "done", "threw"}
   /\ taskCall.target = NoTask)
  => /\ taskCall.pc = "threw"
     /\ taskCall.error = TaskNotFound(taskCall.op)
     /\ taskCall.commands = <<>>

C23_Witness ==
  /\ taskCall.op = "complete"
  /\ taskCall.pc = "threw"
  /\ taskCall.selector.type = "elementId"
  /\ taskCall.searches = MaxSearches
  /\ taskCall.target = NoTask
  /\ userTasks # <<>>

\* C22: the point lookup of hasInput is made at most maxAttempts times in one
\* evaluation, a 404 with attempts left is followed by a pause and another
\* lookup, "not found" is concluded only after maxAttempts lookups answered
\* 404, and a lookup that has begun always ends.
C22_BoundedRetry ==
  /\ [](/\ inputLookup.attempts <= MaxAttempts
        /\ inputLookup.gets <= MaxAttempts
        /\ inputLookup.pc = "pausing" =>
             inputLookup.lastAnswer = "404" /\ inputLookup.attempts < MaxAttempts
        /\ inputLookup.result = "false: not found" =>
             /\ inputLookup.gets = MaxAttempts
             /\ inputLookup.pauses = MaxAttempts - 1)
  /\ (inputLookup.pc \in {"getting", "pausing"} ~> inputLookup.pc = "ended")

C22_Witness ==
  /\ inputLookup.result = "false: not found"
  /\ inputLookup.pauses = MaxAttempts - 1
  /\ inputLookup.selector.type = "decisionId"

\* C24 (as stated): hasResultContaining is satisfied exactly when every key
\* named in the expectation is present in the result with an equal value.
C24_ContainsExactly ==
  resultCheck.called =>
    (resultCheck.satisfied <=>
       NamedKeysPresentAndEqual(resultCheck.actual, resultCheck.expected))

\* C25: when stop() stops the engine container of a runtime that holds a
\* connectors container, the stop of the connectors container has completed
\* before the stop of the engine container is started.
C25_ConnectorsStoppedBeforeEngine ==
  \A i \in DOMAIN runtime.stopLog :
    (runtime.stopLog[i] = <<"camunda", "stop">> /\ runtime.connectorsContainer) =>
      \E j \in 1..(i - 1) : runtime.stopLog[j] = <<"connectors", "stopped">>

C25_Witness ==
  /\ runtime.pc = "stopped"
  /\ runtime.stopLog = <<<<"connectors", "stop">>, <<"connectors", "stopped">>,
                         <<"camunda", "stop">>, <<"camunda", "stopped">>>>

\* C26 (as stated): a stop() called after a stop() that completed issues no
\* container stop call and raises no error.
C26_SecondStopDoesNothing ==
  runtime.stops >= 2 =>
    /\ runtime.stopLog = <<>>
    /\ runtime.pc # "stopFailed"

\* C27 (as stated): when the start of the engine container fails, the capture
\* of the container's logs has been attempted by the time startCamunda()
\* throws the start error.
C27_LogsCapturedBeforeStartError ==
  (runtime.pc = "startFailed" /\ runtime.startError = "camunda container start") =>
    runtime.captureAttempted

\* C28 (as stated): the engine container is declared ready only when the
\* health endpoint answered 2xx and the topology response reports the
\* partition with the leader role and the healthy status.
C28_ReadyOnlyWithLeaderAndHealthy ==
  runtime.container =>
    /\ StatusMatches(runtime.probe.health)
    /\ runtime.probe.topology.leader
    /\ runtime.probe.topology.healthy

\* C29 (as stated): in REMOTE mode start() launches no container, fails when
\* the configuration holds no gateway address, and otherwise exposes exactly
\* the configured address.
C29_RemoteCoordinatesValidated ==
  (runtime.config.runtimeMode = "REMOTE" /\ runtime.pc \in {"started", "startFailed"}) =>
    /\ runtime.startLog = <<>>
    /\ IF runtime.config.gatewayAddress = NoAddress
       THEN runtime.pc = "startFailed"
       ELSE runtime.pc = "started"
            /\ runtime.gatewayAddress = runtime.config.gatewayAddress

\* C30: a clock operation that fails throws, in REMOTE mode, the error
\* labelled as a REMOTE-mode clock failure and never the error of the request
\* itself, and in MANAGED mode the error of the request unchanged.
C30_RemoteClockFailureLabelled ==
  clockCall.outcome = "threw" =>
    /\ clockCall.mode = "REMOTE" =>
         /\ clockCall.error = RemoteClockError(clockCall.op, clockCall.original)
         /\ clockCall.error # clockCall.original
    /\ clockCall.mode = "MANAGED" => clockCall.error = clockCall.original

C30_Witness ==
  /\ clockCall.outcome = "threw"
  /\ clockCall.mode = "REMOTE"
  /\ clockCall.op = "resetClock"
  /\ clockCall.original = FetchFailed

\* C34 (as stated): isActive() is true exactly when the mock has a worker
\* that is registered with the engine.
C34_ActiveIffRegistered ==
  \A m \in 1..Len(mocks) :
    mocks[m].isStarted <=>
      (mocks[m].worker # 0 /\ workers[mocks[m].worker].active)

\* C35 (as stated): once the first job of a mock has been handled without an
\* error, every promise a configuration call returned before the job arrived
\* is resolved.
C35_EveryEarlierPromiseResolved ==
  \A w \in 1..Len(workers) :
    (/\ workers[w].pc = "done"
     /\ ~workers[w].threw
     /\ \A v \in 1..(w - 1) : workers[v].mock # workers[w].mock)
      => \A p \in 1..workers[w].callsBefore :
           mocks[workers[w].mock].promises[p] = "resolved"

\* C36 (as stated): at most one outcome command (complete, fail or BPMN
\* error) is sent to the engine for a job.
C36_OneOutcomePerJob ==
  \A w \in 1..Len(workers) : Len(workers[w].cmds) <= 1

\* C37 (as stated): a process instance leaves the tracking state only after
\* its cancellation has been attempted, and a resource only after its deletion
\* has been attempted.
C37_LeavesTrackingOnlyAfterAttempt ==
  [][/\ \A k \in Range(trackedProcessInstances) \ Range(trackedProcessInstances') :
          k \in audit.cancelAttempted
     /\ \A k \in KeysOf(trackedResources) \ KeysOf(trackedResources') :
          k \in audit.deleteAttempted]_vars

\* the tasks a selector stands for, whatever their state
TasksOf(selector) ==
  IF selector.type = "key"
  THEN Matching(userTasks, "userTaskKey", selector.value)
  ELSE Accepted(SearchResult(userTasks, selector), selector)

\* C38 (as stated): an evaluation of isCompleted on a selector that is not a
\* key, begun after the one task the selector matches was completed, is
\* satisfied.
C38_CompletedTaskIsSeen ==
  (/\ taskCheck.pc = "evaluated"
   /\ taskCheck.selector.type # "key"
   /\ Cardinality(TasksOf(taskCheck.selector)) = 1
   /\ \A t \in TasksOf(taskCheck.selector) : t.userTaskKey \in taskCheck.completedAtCall)
    => taskCheck.result = TRUE

\* C39 (as stated): when increaseTime failed because the engine clock could
\* not be advanced, the context's current time is what it was before the call.
C39_FailedAdvanceLeavesTime ==
  time.pc = "threw" => time.currentTime = time.before

\* the resolution as stated: the environment variable when it is set,
\* otherwise the value of the file when it is present (neither missing nor
\* empty) and not a placeholder, otherwise the default
StatedResolution(env, file, defaultValue) ==
  IF env.set THEN env
  ELSE IF file.set /\ file.text # <<>> /\ ~PlaceholderPatternTest(file.text)
       THEN file
       ELSE defaultValue

\* C32 (as stated): the value resolved for every key of the configuration
\* map is the environment variable's when it is set, otherwise the file's
\* when it is present and not a placeholder, otherwise the default.
C32_EnvThenFileThenDefault ==
  property.key # "none" =>
    property.resolved =
      StatedResolution(property.env, property.file,
                       RuntimeConfiguration[property.key].defaultValue)

\* C33 (as stated): an overridden configuration file that is missing, or a
\* configuration file that cannot be parsed, makes the resolution throw, and
\* the run neither starts a container nor sets a remote connection up.
C33_ConfigurationErrorThrows ==
  (/\ setup.pc # "idle"
   /\ \/ setup.inputs.override # "none" /\ setup.inputs.overrideFile = "missing"
      \/ setup.inputs.override # "none" /\ setup.inputs.overrideFile = "unparsable"
      \/ /\ setup.inputs.override = "none"
         /\ setup.inputs.packageJson
         /\ setup.inputs.rootFile = "unparsable") =>
    /\ setup.resolution.threw
    /\ runtime = NewRuntime

\* C33 (amended): a configuration file named by the override that is missing
\* or cannot be parsed makes the resolution throw, and the run neither
\* constructs a runtime, starts a container nor sets a remote address; a file
\* at the project root that cannot be parsed does not throw, the resolution
\* returns the empty configuration.
C33_OverriddenFileErrorThrows ==
  /\ (/\ setup.pc # "idle"
      /\ setup.inputs.override # "none"
      /\ setup.inputs.overrideFile \in {"missing", "unparsable"}) =>
       /\ setup.resolution.threw
       /\ setup.pc = "threw"
       /\ runtime = NewRuntime
  /\ (/\ setup.pc # "idle"
      /\ setup.inputs.override = "none"
      /\ setup.inputs.packageJson
      /\ setup.inputs.rootFile = "unparsable") =>
       setup.resolution = Resolved("empty")

C33_Witness ==
  /\ setup.pc = "threw"
  /\ setup.afterAll
  /\ setup.inputs.override = "absolute"
  /\ setup.inputs.overrideFile = "unparsable"
  /\ setup.resolution.error = "Failed to parse Camunda test configuration file"

C40_EveryLaunchedContainerStopped ==
  (setup.afterAll /\ runtime.pc \in {"stopped", "stopFailed"}) =>
    /\ runtime.container => <<"camunda", "stop">> \in Range(runtime.stopLog)
    /\ runtime.connectorsContainer => <<"connectors", "stop">> \in Range(runtime.stopLog)

====
